---------------------------- MODULE Spec2Model ----------------------------
(***************************************************************************)
(* A model of the MoE stress-test harness, scripts/moe_stress_test.py:     *)
(*   - StressTester: the orchestrator (main, run_all_tests_for_model) and  *)
(*     the server lifecycle (start_shimmy_server, stop_shimmy_server);     *)
(*   - GPUMonitor: the background sampling thread;                         *)
(*   - ShimmyClient: one generate call, from the request to its result;    *)
(*   - the three scenarios (basic, long-form, concurrent): their requests, *)
(*     the client session around them, and the TestMetrics they return.    *)
(*   - the order of a run: the selection of the models and the order in    *)
(*     which their scenarios are recorded;                                 *)
(*   - generate_report: the aggregates of the collected records, and the   *)
(*     table row it writes for a record;                                   *)
(*   - execute_streaming_benchmarks.py: the loop of execute_streaming_test *)
(*     over the lines of a streamed response, and run_benchmark_suite with *)
(*     the results of its tests and generate_summary;                      *)
(*   - scripts/test_cross_compiled_vision.py: run_cross_validation_test    *)
(*     and the request of test_vision_processing, and wait_for_server;     *)
(*   - scripts/vision_timing.py: the loop of main over the images.         *)
(* The parts are checked under their own specifications (Spec,             *)
(* SpecMonitor, SpecClient, SpecScenario, SpecOrder, SpecReport,           *)
(* SpecStream, SpecVision, SpecArtifact, SpecTiming, SpecWait, SpecBench)  *)
(* over one set of variables; each leaves the variables of the others at   *)
(* their initial values.                                                   *)
(***************************************************************************)
EXTENDS Integers, Sequences, FiniteSets, TLC

\* ------------------------------------------------------------------ bounds

\* The number of models selected for the run (models_to_test is a subset of
\* the registry MODELS; the run is modelled for every length up to this).
MaxModels == 2

\* The scenarios run_all_tests_for_model awaits, in order: basic, long-form,
\* concurrent.
NumScenarios == 3

Pids == 1..MaxModels

\* The monitoring windows (start_monitoring ... stop_monitoring) of a run; each
\* starts one sampling thread.
MaxWindows == 2

\* The largest reading (MB) a sample returns; readings are 0..MaxMem.
MaxMem == 2

Tids == 1..MaxWindows

\* The longest response text of a generate call, in characters.
MaxLen == 3

\* The longest --models list on the command line.
MaxArgs == 3

\* The most records generate_report is given.
MaxRows == 3

\* The most lines of a streamed response, and the longest payload of a line
\* in characters.
MaxLines == 3

MaxPayload == 1

\* The tests of run_benchmark_suite's test_suite the model runs.
MaxTests == 3

\* The most images the vision timing runner is given.
MaxImages == 3

\* len(TEST_PROMPTS): the prompt categories.
NumCategories == 5

\* The prompts of every category of TEST_PROMPTS.
PromptsPerCategory == 3

\* prompts[:2]: the prompts the basic scenario takes from a category.
BasicSlice == 2

\* len(long_prompts) of the long-form scenario.
NumLongPrompts == 3

\* range(5): the rounds of the concurrent scenario, one request per category
\* in each.
NumRounds == 5

\* ---------------------------------------------------------------- variables

VARIABLES
    argsTests,       \* args.tests: the scenarios named on the command line
    pc,              \* the position of main()'s control flow
    stopRet,         \* the caller of the running stop_shimmy_server
    stopExc,         \* stop_shimmy_server is leaving by an exception
    pending,         \* the exception in flight ("none" when there is none)
    nModels,         \* len(models_to_test)
    modelIdx,        \* the index of the model the loop is at
    scenIdx,         \* the scenario run_all_tests_for_model is at
    server_process,  \* StressTester.server_process: 0 is None, else a pid
    proc,            \* each spawned process: "none", "starting", "ready", "exited"
    sigs,            \* the signals sent to each process, in order
    startRet,        \* the outcome of the last start_shimmy_server call
    spawnedPid,      \* the process spawned by that call (0: none)
    health,          \* the answer to that call's health request
    probes,          \* the health requests that call has made
    startLog,        \* the log record that call has written
    results,         \* StressTester.results, as <<model, scenario>> pairs
    exitPath,        \* how the try block of main() was left
    stopsInRow,      \* history: stop calls ended since the last spawn (at most 2)
    mpc,             \* the position of the thread that calls the GPUMonitor
    monitoring,      \* GPUMonitor.monitoring
    peak_memory,     \* GPUMonitor.peak_memory
    thread,          \* GPUMonitor.thread: 0 is None, else a thread id
    tpc,             \* the position of each sampling thread in _monitor_loop
    tmem,            \* each thread's memory_mb, the reading it holds
    tpeak,           \* each thread's read of self.peak_memory inside max()
    window,          \* the number of monitoring windows started
    returned,        \* the value the last stop_monitoring returned
    joinMayExpire,   \* the thread joined was inside a sample at the stop signal
    windowMax,       \* history: the largest reading obtained during the open
                     \* window, -1 when no sample has succeeded in it
    cpc,             \* the position of a generate call
    reply,           \* what the server and the transport do to that call
    cexc,            \* str(e) of the exception generate has caught
    cjson,           \* generate's local result, the parsed body
    gresult,         \* the dictionary generate returned
    spc,             \* the position of the scenario being run
    sIdx,            \* the scenario: 1 basic, 2 long-form, 3 concurrent
    session,         \* ShimmyClient.session: "none", "open" or "closed"
    nreq,            \* the requests the scenario has issued (or created)
    inflight,        \* the requests awaited and not yet ended
    total_tokens,    \* the scenario's local total_tokens
    total_time,      \* the scenario's local total_time, in tenths of a second
    successful_requests,  \* the scenario's local successful_requests
    outcomes,        \* how many requests ended in each way (the results)
    unprocessed,     \* the results the loop of line 415 has not visited yet
    metrics,         \* the TestMetrics the scenario returned
    nRecords,        \* the records appended by run_all_tests_for_model
    sraised,         \* the exception that left the scenario ("none": none)
    protocol,        \* history: the steps of the scenario's outer protocol
    monitored,       \* the scenario's monitoring window is open
    opc,             \* the position of main() in the run whose order is followed
    argsModels,      \* args.models: the names after --models (<<>>: not given)
    models_to_test,  \* main()'s models_to_test, as model names
    oIdx,            \* the index of the model that run is at
    oScen,           \* the scenario that run is at
    order,           \* the records of that run, as <<model name, scenario>>
    rpc,             \* the position of the report
    rows,            \* self.results as generate_report reads it
    summary,         \* the aggregates the report has computed
    stpc,            \* the position of execute_streaming_test
    lines,           \* the lines response.iter_lines yields, first to last
    lineIdx,         \* the lines taken from the iterator so far
    full_response,   \* execute_streaming_test's full_response
    token_count,     \* execute_streaming_test's token_count
    vpc,             \* the position of run_cross_validation_test
    cpu_only,        \* its cpu_only argument
    vreply,          \* what the vision endpoint answers to the request
    response,        \* the first value test_vision_processing returned
    is_license_error,\* the second value it returned
    test_results,    \* run_cross_validation_test's test_results
    success,         \* the first value run_cross_validation_test returns
    vexc,            \* the exception it raises, "none" if none
    vserver,         \* the server process start_server spawned
    apc,             \* the position of the record on its way through the report
    arecord,         \* a TestMetrics record of self.results
    cells,           \* what the report file holds of it
    read_back,       \* the record read back from the report file
    tmpc,            \* the position of the vision timing runner's main
    fail_fast,       \* args.fail_fast
    outcomeOf,       \* for each image in order, how its post_vision call ends
    imgIdx,          \* the images the loop has taken
    requested,       \* history: the images whose request was sent, in order
    trows,           \* the runner's rows
    exit_status,     \* the exit status of the runner, -1 while it runs
    report_calls,    \* history: the calls of generate_report in this run
    written,         \* the files generate_report has written
    wpc,             \* the position of wait_for_server
    wclock,          \* time.time() - start_time, in seconds
    wanswer,         \* how the last health probe ended
    wret,            \* what wait_for_server returned, "none" before
    bpc,             \* the position of run_benchmark_suite
    bidx,            \* the test of the suite at hand, from 1
    bresults,        \* the runner's self.results
    bsummary         \* how generate_summary ended, "none" before

serverVars == <<pc, stopRet, stopExc, pending, nModels, modelIdx, scenIdx,
                server_process, proc, sigs, startRet, spawnedPid, health,
                probes, startLog, results, exitPath, stopsInRow>>

monVars == <<mpc, monitoring, peak_memory, thread, tpc, tmem, tpeak, window,
             returned, joinMayExpire, windowMax>>

clientVars == <<cpc, reply, cexc, cjson, gresult>>

\* The command line; no action changes it.
argVars == <<argsTests>>

scenVars == <<spc, sIdx, session, nreq, inflight, total_tokens, total_time,
              successful_requests, outcomes, unprocessed, metrics, nRecords,
              sraised, protocol, monitored>>

orderVars == <<opc, argsModels, models_to_test, oIdx, oScen, order>>

reportVars == <<rpc, rows, summary>>

streamVars == <<stpc, lines, lineIdx, full_response, token_count>>

visionVars == <<vpc, cpu_only, vreply, response, is_license_error,
                test_results, success, vexc, vserver>>

artifactVars == <<apc, arecord, cells, read_back>>

timingVars == <<tmpc, fail_fast, outcomeOf, imgIdx, requested, trows, exit_status>>

fileVars == <<report_calls, written>>

waitVars == <<wpc, wclock, wanswer, wret>>

benchVars == <<bpc, bidx, bresults, bsummary>>

nonServerVars ==
    <<argVars, monVars, clientVars, scenVars, orderVars, reportVars,
      streamVars, visionVars, artifactVars, timingVars, fileVars, waitVars,
      benchVars>>

nonMonitorVars ==
    <<argVars, serverVars, clientVars, scenVars, orderVars, reportVars,
      streamVars, visionVars, artifactVars, timingVars, fileVars, waitVars,
      benchVars>>

nonClientVars ==
    <<argVars, serverVars, monVars, scenVars, orderVars, reportVars,
      streamVars, visionVars, artifactVars, timingVars, fileVars, waitVars,
      benchVars>>

nonScenVars ==
    <<argVars, serverVars, monVars, clientVars, orderVars, reportVars,
      streamVars, visionVars, artifactVars, timingVars, fileVars, waitVars,
      benchVars>>

nonOrderVars ==
    <<argVars, serverVars, monVars, clientVars, scenVars, reportVars,
      streamVars, visionVars, artifactVars, timingVars, fileVars, waitVars,
      benchVars>>

nonReportVars ==
    <<argVars, serverVars, monVars, clientVars, scenVars, orderVars,
      streamVars, visionVars, artifactVars, timingVars, fileVars, waitVars,
      benchVars>>

nonStreamVars ==
    <<argVars, serverVars, monVars, clientVars, scenVars, orderVars,
      reportVars, visionVars, artifactVars, timingVars, fileVars, waitVars,
      benchVars>>

nonVisionVars ==
    <<argVars, serverVars, monVars, clientVars, scenVars, orderVars,
      reportVars, streamVars, artifactVars, timingVars, fileVars, waitVars,
      benchVars>>

nonArtifactVars ==
    <<argVars, serverVars, monVars, clientVars, scenVars, orderVars,
      reportVars, streamVars, visionVars, timingVars, fileVars, waitVars,
      benchVars>>

nonTimingVars ==
    <<argVars, serverVars, monVars, clientVars, scenVars, orderVars,
      reportVars, streamVars, visionVars, artifactVars, fileVars, waitVars,
      benchVars>>

nonFileVars ==
    <<argVars, serverVars, monVars, clientVars, scenVars, orderVars,
      reportVars, streamVars, visionVars, artifactVars, timingVars,
      waitVars, benchVars>>

\* What the steps of generate_report in main() leave alone besides the
\* server's variables.
nonServerFileVars ==
    <<argVars, monVars, clientVars, scenVars, orderVars, reportVars,
      streamVars, visionVars, artifactVars, timingVars, waitVars, benchVars>>

nonWaitVars ==
    <<argVars, serverVars, monVars, clientVars, scenVars, orderVars,
      reportVars, streamVars, visionVars, artifactVars, timingVars,
      fileVars, benchVars>>

nonBenchVars ==
    <<argVars, serverVars, monVars, clientVars, scenVars, orderVars,
      reportVars, streamVars, visionVars, artifactVars, timingVars, fileVars, waitVars>>

vars ==
    <<argVars, serverVars, monVars, clientVars, scenVars, orderVars,
      reportVars, streamVars, visionVars, artifactVars, timingVars,
      fileVars, waitVars, benchVars>>

Alive(p) == proc[p] \in {"starting", "ready"}

AliveSet == {p \in Pids : Alive(p)}

\* ------------------------------------------------------------------- Init

\* main(), lines 624-627: --tests takes one or more of basic (1), longform (2)
\* and concurrent (3).
TestSelections == SUBSET (1..NumScenarios) \ {{}}

InitArgs == argsTests \in TestSelections

\* The default of --tests: all three.
InitArgsDefault == argsTests = 1..NumScenarios

InitServer ==
    /\ pc = "main_loop"
    /\ stopRet = "none"
    /\ stopExc = FALSE
    /\ pending = "none"
    /\ nModels \in 0..MaxModels
    /\ modelIdx = 0
    /\ scenIdx = 0
    /\ server_process = 0
    /\ proc = [p \in Pids |-> "none"]
    /\ sigs = [p \in Pids |-> <<>>]
    /\ startRet = "none"
    /\ spawnedPid = 0
    /\ health = "none"
    /\ probes = 0
    /\ startLog = "none"
    /\ results = <<>>
    /\ exitPath = "none"
    /\ stopsInRow = 0

\* ------------------------------------------------- exceptions in main()

\* main(), lines 655-659: an exception leaving the try block.  A
\* KeyboardInterrupt is logged and swallowed; any other exception is logged and
\* re-raised; both go on to the finally clause.
MainCatch(e) ==
    /\ pc' = "main_finally"
    /\ pending' = IF e = "KeyboardInterrupt" THEN "none" ELSE e
    /\ exitPath' = IF e = "KeyboardInterrupt" THEN "interrupt" ELSE "exception"

\* ------------------------------------------------------ the spawned server

\* The server answers its health endpoint once it has loaded the model.
ServerBecomesReady(p) ==
    /\ proc[p] = "starting"
    /\ proc' = [proc EXCEPT ![p] = "ready"]
    /\ UNCHANGED <<pc, stopRet, stopExc, pending, nModels, modelIdx, scenIdx,
                   server_process, sigs, startRet, spawnedPid, health, probes,
                   startLog, results, exitPath,
                   stopsInRow, nonServerVars>>

\* The server process ends by itself (a build or load failure, a crash).
ServerExits(p) ==
    /\ Alive(p)
    /\ proc' = [proc EXCEPT ![p] = "exited"]
    /\ UNCHANGED <<pc, stopRet, stopExc, pending, nModels, modelIdx, scenIdx,
                   server_process, sigs, startRet, spawnedPid, health, probes,
                   startLog, results, exitPath,
                   stopsInRow, nonServerVars>>

\* ------------------------------------------------------ stop_shimmy_server

\* Line 276: if self.server_process.
StopCheck ==
    /\ pc = "stop_check"
    /\ server_process # 0
    /\ pc' = "stop_terminate"
    /\ UNCHANGED <<stopRet, stopExc, pending, nModels, modelIdx, scenIdx,
                   server_process, proc, sigs, startRet, spawnedPid, health,
                   probes, startLog, results, exitPath,
                   stopsInRow, nonServerVars>>

\* A stop that skips the graceful request and kills at once.
StopTerminateKills ==
    /\ pc = "stop_terminate"
    /\ sigs' = IF Alive(server_process)
               THEN [sigs EXCEPT ![server_process] = Append(@, "KILL")]
               ELSE sigs
    /\ pc' = "stop_wait"
    /\ UNCHANGED <<stopRet, stopExc, pending, nModels, modelIdx, scenIdx,
                   server_process, proc, startRet, spawnedPid, health, probes,
                   startLog, results, exitPath, stopsInRow,
                   nonServerVars>>

\* Line 278: Popen.terminate() sends SIGTERM unless the process has ended.
StopTerminate ==
    /\ pc = "stop_terminate"
    /\ sigs' = IF Alive(server_process)
               THEN [sigs EXCEPT ![server_process] = Append(@, "TERM")]
               ELSE sigs
    /\ pc' = "stop_wait"
    /\ UNCHANGED <<stopRet, stopExc, pending, nModels, modelIdx, scenIdx,
                   server_process, proc, startRet, spawnedPid, health, probes,
                   startLog, results, exitPath,
                   stopsInRow, nonServerVars>>

\* Line 279: wait(timeout=10) returns, the process having ended within it.
StopWaitExited ==
    /\ pc = "stop_wait"
    /\ proc' = [proc EXCEPT ![server_process] = "exited"]
    /\ pc' = "stop_finally"
    /\ UNCHANGED <<stopRet, stopExc, pending, nModels, modelIdx, scenIdx,
                   server_process, sigs, startRet, spawnedPid, health, probes,
                   startLog, results, exitPath,
                   stopsInRow, nonServerVars>>

\* Lines 279-280: wait(timeout=10) raises TimeoutExpired, the process running on.
StopWaitTimeout ==
    /\ pc = "stop_wait"
    /\ Alive(server_process)
    /\ pc' = "stop_kill"
    /\ UNCHANGED <<stopRet, stopExc, pending, nModels, modelIdx, scenIdx,
                   server_process, proc, sigs, startRet, spawnedPid, health,
                   probes, startLog, results, exitPath,
                   stopsInRow, nonServerVars>>

\* Line 279: a KeyboardInterrupt reaches the process while it blocks in
\* wait(timeout=10); it is no TimeoutExpired, so only the finally clause runs.
StopWaitInterrupt ==
    /\ pc = "stop_wait"
    /\ Alive(server_process)
    /\ stopExc' = TRUE
    /\ pc' = "stop_finally"
    /\ UNCHANGED <<stopRet, pending, nModels, modelIdx, scenIdx,
                   server_process, proc, sigs, startRet, spawnedPid, health,
                   probes, startLog, results, exitPath,
                   stopsInRow, nonServerVars>>

\* Lines 281-282: Popen.kill() sends SIGKILL unless the process has ended, and
\* wait() returns once it has.
StopKill ==
    /\ pc = "stop_kill"
    /\ sigs' = IF Alive(server_process)
               THEN [sigs EXCEPT ![server_process] = Append(@, "KILL")]
               ELSE sigs
    /\ proc' = [proc EXCEPT ![server_process] = "exited"]
    /\ pc' = "stop_finally"
    /\ UNCHANGED <<stopRet, stopExc, pending, nModels, modelIdx, scenIdx,
                   server_process, startRet, spawnedPid, health, probes,
                   startLog, results, exitPath,
                   stopsInRow, nonServerVars>>

\* stop_shimmy_server hands control back: to its caller, or, raising, to the
\* handler the exception reaches.  Called at line 234 (start_shimmy_server,
\* whose except Exception does not catch a KeyboardInterrupt), line 470 (the
\* finally of run_all_tests_for_model, which then lets the exception in
\* flight go on to main) and line 661 (the finally of main).
StopLeaves(raised) ==
    CASE stopRet = "start" /\ raised ->
            /\ MainCatch("KeyboardInterrupt")
            /\ startRet' = "raised"
      [] stopRet = "start" /\ ~raised ->
            /\ pc' = "start_spawn"
            /\ UNCHANGED <<pending, exitPath, startRet>>
      [] stopRet = "runall" /\ raised ->
            /\ MainCatch("KeyboardInterrupt")
            /\ UNCHANGED startRet
      [] stopRet = "runall" /\ ~raised /\ pending = "none" ->
            /\ pc' = "main_sleep"
            /\ UNCHANGED <<pending, exitPath, startRet>>
      [] stopRet = "runall" /\ ~raised /\ pending # "none" ->
            /\ MainCatch(pending)
            /\ UNCHANGED startRet
      [] stopRet = "main" ->
            /\ pc' = "done"
            /\ pending' = IF raised THEN "KeyboardInterrupt" ELSE pending
            /\ UNCHANGED <<exitPath, startRet>>

\* Line 276, the handle being None: nothing to stop.
StopNothing ==
    /\ pc = "stop_check"
    /\ server_process = 0
    /\ StopLeaves(FALSE)
    /\ stopRet' = "none"
    /\ stopsInRow' = IF stopsInRow < 2 THEN stopsInRow + 1 ELSE stopsInRow
    /\ UNCHANGED <<stopExc, nModels, modelIdx, scenIdx, server_process, proc,
                   sigs, spawnedPid, health, probes, startLog, results,
                   nonServerVars>>

\* A stop that never clears the handle.
StopFinallyKeepsHandle ==
    /\ pc = "stop_finally"
    /\ StopLeaves(stopExc)
    /\ stopRet' = "none"
    /\ stopExc' = FALSE
    /\ stopsInRow' = IF stopsInRow < 2 THEN stopsInRow + 1 ELSE stopsInRow
    /\ UNCHANGED <<nModels, modelIdx, scenIdx, server_process, proc, sigs,
                   spawnedPid, health, probes, startLog, results,
                   nonServerVars>>

\* Lines 283-284: finally: self.server_process = None, on every way out of
\* the try block.
StopFinally ==
    /\ pc = "stop_finally"
    /\ server_process' = 0
    /\ StopLeaves(stopExc)
    /\ stopRet' = "none"
    /\ stopExc' = FALSE
    /\ stopsInRow' = IF stopsInRow < 2 THEN stopsInRow + 1 ELSE stopsInRow
    /\ UNCHANGED <<nModels, modelIdx, scenIdx, proc, sigs, spawnedPid, health,
                   probes, startLog, results,
                   nonServerVars>>

\* ----------------------------------------------------- start_shimmy_server

\* A start that spawns without stopping the server it owns.
StartSkipsStop ==
    /\ pc = "start_enter"
    /\ pc' = "start_spawn"
    /\ UNCHANGED <<stopRet, stopExc, pending, nModels, modelIdx, scenIdx,
                   server_process, proc, sigs, startRet, spawnedPid, health,
                   probes, startLog, results, exitPath, stopsInRow,
                   nonServerVars>>

\* Lines 232-234: the call of stop_shimmy_server that opens start.
StartStopPrevious ==
    /\ pc = "start_enter"
    /\ pc' = "stop_check"
    /\ stopRet' = "start"
    /\ UNCHANGED <<stopExc, pending, nModels, modelIdx, scenIdx,
                   server_process, proc, sigs, startRet, spawnedPid, health,
                   probes, startLog, results, exitPath,
                   stopsInRow, nonServerVars>>

\* The pid of the next process Popen creates.
NextPid == Cardinality({p \in Pids : proc[p] # "none"}) + 1

\* Lines 249-255: subprocess.Popen(cmd, ...) creates the process and the
\* handle is stored.
StartSpawn ==
    /\ pc = "start_spawn"
    /\ NextPid \in Pids
    /\ proc' = [proc EXCEPT ![NextPid] = "starting"]
    /\ server_process' = NextPid
    /\ spawnedPid' = NextPid
    /\ stopsInRow' = 0
    /\ pc' = "start_sleep"
    /\ UNCHANGED <<stopRet, stopExc, pending, nModels, modelIdx, scenIdx, sigs,
                   startRet, health, probes, startLog, results, exitPath,
                   nonServerVars>>

\* A start whose spawn failure escapes to the caller.
StartSpawnEscapes ==
    /\ pc = "start_spawn"
    /\ MainCatch("Exception")
    /\ startRet' = "raised"
    /\ UNCHANGED <<stopRet, stopExc, nModels, modelIdx, scenIdx,
                   server_process, proc, sigs, spawnedPid, health, probes,
                   startLog, results, stopsInRow, nonServerVars>>

\* Lines 249, 270-272: Popen raises (no cargo, no working directory); the
\* except clause logs the error and start returns False.
StartSpawnFails ==
    /\ pc = "start_spawn"
    /\ startLog' = "error_failed_to_start"
    /\ startRet' = "False"
    /\ pc' = "runall_check"
    /\ UNCHANGED <<stopRet, stopExc, pending, nModels, modelIdx, scenIdx,
                   server_process, proc, sigs, spawnedPid, health, probes,
                   results, exitPath,
                   stopsInRow, nonServerVars>>

\* Line 258: time.sleep(10).
StartSleep ==
    /\ pc = "start_sleep"
    /\ pc' = "start_health"
    /\ UNCHANGED <<stopRet, stopExc, pending, nModels, modelIdx, scenIdx,
                   server_process, proc, sigs, startRet, spawnedPid, health,
                   probes, startLog, results, exitPath,
                   stopsInRow, nonServerVars>>

\* The answers the health request can get: 200 only from a server that has
\* become ready; an error status, or no answer at all (connection refused,
\* timeout after 5 s), at any time.
HealthAnswers ==
    (IF server_process # 0 /\ proc[server_process] = "ready"
     THEN {"200"} ELSE {}) \cup {"non200", "exception"}

\* Line 262: requests.get(".../health", timeout=5): the one health request.
StartHealth ==
    /\ pc = "start_health"
    /\ \E a \in HealthAnswers : health' = a
    /\ probes' = probes + 1
    /\ pc' = "start_result"
    /\ UNCHANGED <<stopRet, stopExc, pending, nModels, modelIdx, scenIdx,
                   server_process, proc, sigs, startRet, spawnedPid, startLog,
                   results, exitPath,
                   stopsInRow, nonServerVars>>

\* A start that takes any HTTP answer for success.
StartResultAnyAnswer ==
    /\ pc = "start_result"
    /\ startRet' = IF health \in {"200", "non200"} THEN "True" ELSE "False"
    /\ startLog' = IF health \in {"200", "non200"}
                   THEN "info_started" ELSE "error_failed_to_start"
    /\ pc' = "runall_check"
    /\ UNCHANGED <<stopRet, stopExc, pending, nModels, modelIdx, scenIdx,
                   server_process, proc, sigs, spawnedPid, health, probes,
                   results, exitPath, stopsInRow,
                   nonServerVars>>

\* A start that polls: after a failed health request it sleeps and asks again.
StartResultPolls ==
    /\ pc = "start_result"
    /\ IF health = "200"
       THEN /\ startRet' = "True"
            /\ startLog' = "info_started"
            /\ pc' = "runall_check"
       ELSE /\ pc' = "start_sleep"
            /\ UNCHANGED <<startRet, startLog>>
    /\ UNCHANGED <<stopRet, stopExc, pending, nModels, modelIdx, scenIdx,
                   server_process, proc, sigs, spawnedPid, health, probes,
                   results, exitPath, stopsInRow,
                   nonServerVars>>

\* Lines 263-272: the outcome of the health request decides the return value:
\* True with an info record for a 200, False with an error record for any
\* other status (line 267) and for an exception (line 271).
StartResult ==
    /\ pc = "start_result"
    /\ startRet' = IF health = "200" THEN "True" ELSE "False"
    /\ startLog' = CASE health = "200" -> "info_started"
                      [] health = "non200" -> "error_health_check"
                      [] OTHER -> "error_failed_to_start"
    /\ pc' = "runall_check"
    /\ UNCHANGED <<stopRet, stopExc, pending, nModels, modelIdx, scenIdx,
                   server_process, proc, sigs, spawnedPid, health, probes,
                   results, exitPath,
                   stopsInRow, nonServerVars>>

\* Lines 258, 262: a KeyboardInterrupt while start sleeps or waits for the
\* health answer; except Exception does not catch it and it reaches main.
StartInterrupt ==
    /\ pc \in {"start_sleep", "start_health"}
    /\ MainCatch("KeyboardInterrupt")
    /\ startRet' = "raised"
    /\ UNCHANGED <<stopRet, stopExc, nModels, modelIdx, scenIdx,
                   server_process, proc, sigs, spawnedPid, health, probes,
                   startLog, results,
                   stopsInRow, nonServerVars>>

\* ------------------------------------------------ run_all_tests_for_model

\* A run that goes on to the scenarios whatever the start returned.
RunAllCheckIgnoresStart ==
    /\ pc = "runall_check"
    /\ pc' = "scenario"
    /\ scenIdx' = 1
    /\ UNCHANGED <<stopRet, stopExc, pending, nModels, modelIdx,
                   server_process, proc, sigs, startRet, spawnedPid, health,
                   probes, startLog, results, exitPath,
                   stopsInRow, nonServerVars>>

\* Lines 444-448: a failed start ends the model's run with no result; else
\* the scenarios begin.
RunAllCheck ==
    /\ pc = "runall_check"
    /\ IF startRet = "True"
       THEN pc' = "scenario" /\ scenIdx' = 1
       ELSE pc' = "main_sleep" /\ UNCHANGED scenIdx
    /\ UNCHANGED <<stopRet, stopExc, pending, nModels, modelIdx,
                   server_process, proc, sigs, startRet, spawnedPid, health,
                   probes, startLog, results, exitPath,
                   stopsInRow, nonServerVars>>

\* A run whose collection is the list of the model at hand: the first record
\* of a model starts it anew.
ScenarioCompletesOwnList ==
    /\ pc = "scenario"
    /\ results' = IF scenIdx = 1 THEN <<<<modelIdx, scenIdx>>>>
                  ELSE Append(results, <<modelIdx, scenIdx>>)
    /\ IF scenIdx < NumScenarios
       THEN scenIdx' = scenIdx + 1 /\ UNCHANGED pc
       ELSE pc' = "runall_finally" /\ UNCHANGED scenIdx
    /\ UNCHANGED <<stopRet, stopExc, pending, nModels, modelIdx,
                   server_process, proc, sigs, startRet, spawnedPid, health,
                   probes, startLog, exitPath,
                   stopsInRow, nonServerVars>>

\* A run that gives up its server after the first scenario and goes on with
\* the others.
ScenarioCompletesAfterStop ==
    /\ pc = "scenario"
    /\ results' = Append(results, <<modelIdx, scenIdx>>)
    /\ IF scenIdx < NumScenarios
       THEN scenIdx' = scenIdx + 1 /\ server_process' = 0 /\ UNCHANGED pc
       ELSE pc' = "runall_finally" /\ UNCHANGED <<scenIdx, server_process>>
    /\ UNCHANGED <<stopRet, stopExc, pending, nModels, modelIdx,
                   proc, sigs, startRet, spawnedPid, health,
                   probes, startLog, exitPath,
                   stopsInRow, nonServerVars>>

\* Lines 452-467: a scenario returns its TestMetrics, which is appended to
\* self.results; after the last one the method returns through finally.
ScenarioCompletes ==
    /\ pc = "scenario"
    /\ results' = Append(results, <<modelIdx, scenIdx>>)
    /\ IF scenIdx < NumScenarios
       THEN scenIdx' = scenIdx + 1 /\ UNCHANGED pc
       ELSE pc' = "runall_finally" /\ UNCHANGED scenIdx
    /\ UNCHANGED <<stopRet, stopExc, pending, nModels, modelIdx,
                   server_process, proc, sigs, startRet, spawnedPid, health,
                   probes, startLog, exitPath,
                   stopsInRow, nonServerVars>>

\* Lines 452-462: a scenario raises (an exception of its own, or a
\* KeyboardInterrupt while it runs); the finally clause is next.
ScenarioRaises(e) ==
    /\ pc = "scenario"
    /\ pending' = e
    /\ pc' = "runall_finally"
    /\ UNCHANGED <<stopRet, stopExc, nModels, modelIdx, scenIdx,
                   server_process, proc, sigs, startRet, spawnedPid, health,
                   probes, startLog, results, exitPath,
                   stopsInRow, nonServerVars>>

\* Lines 469-470: finally: self.stop_shimmy_server().
RunAllFinally ==
    /\ pc = "runall_finally"
    /\ pc' = "stop_check"
    /\ stopRet' = "runall"
    /\ UNCHANGED <<stopExc, pending, nModels, modelIdx, scenIdx,
                   server_process, proc, sigs, startRet, spawnedPid, health,
                   probes, startLog, results, exitPath,
                   stopsInRow, nonServerVars>>

\* ------------------------------------------------------------------ main()

\* Lines 642-644: the next model of models_to_test, if any: its run opens
\* with start_shimmy_server; after the last one the report is next.
MainLoop ==
    /\ pc = "main_loop"
    /\ IF modelIdx < nModels
       THEN /\ modelIdx' = modelIdx + 1
            /\ pc' = "start_enter"
            /\ startRet' = "none"
            /\ spawnedPid' = 0
            /\ health' = "none"
            /\ probes' = 0
            /\ startLog' = "none"
       ELSE /\ pc' = "main_report"
            /\ UNCHANGED <<modelIdx, startRet, spawnedPid, health, probes,
                           startLog>>
    /\ UNCHANGED <<stopRet, stopExc, pending, nModels, scenIdx,
                   server_process, proc, sigs, results, exitPath,
                   stopsInRow, nonServerVars>>

\* Line 647: time.sleep(5) between models.
MainSleep ==
    /\ pc = "main_sleep"
    /\ pc' = "main_loop"
    /\ UNCHANGED <<stopRet, stopExc, pending, nModels, modelIdx, scenIdx,
                   server_process, proc, sigs, startRet, spawnedPid, health,
                   probes, startLog, results, exitPath,
                   stopsInRow, nonServerVars>>

\* Line 647: a KeyboardInterrupt during the pause.
MainSleepInterrupt ==
    /\ pc = "main_sleep"
    /\ MainCatch("KeyboardInterrupt")
    /\ UNCHANGED <<stopRet, stopExc, nModels, modelIdx, scenIdx,
                   server_process, proc, sigs, startRet, spawnedPid, health,
                   probes, startLog, results,
                   stopsInRow, nonServerVars>>

\* The files generate_report writes: the chart image (line 510) and the
\* report (lines 613-614).
ReportFiles == {"chart", "report"}

\* No call of generate_report yet and nothing written.
InitFilesIdle ==
    /\ report_calls = 0
    /\ written = {}

\* A generate_report that goes on to the chart with no results.
ReportBeginUnguarded ==
    /\ pc = "main_report"
    /\ report_calls' = report_calls + 1
    /\ pc' = "report_chart"
    /\ UNCHANGED <<stopRet, stopExc, pending, nModels, modelIdx, scenIdx,
                   server_process, proc, sigs, startRet, spawnedPid, health,
                   probes, startLog, results, exitPath,
                   stopsInRow, written, nonServerFileVars>>

\* Lines 650, 472-476: main() calls generate_report; with no results it logs
\* a warning and returns at once, and the try block of main() ends.
ReportBegin ==
    /\ pc = "main_report"
    /\ report_calls' = report_calls + 1
    /\ IF results = <<>>
       THEN pc' = "main_finally" /\ exitPath' = "completed"
       ELSE pc' = "report_chart" /\ UNCHANGED exitPath
    /\ UNCHANGED <<stopRet, stopExc, pending, nModels, modelIdx, scenIdx,
                   server_process, proc, sigs, startRet, spawnedPid, health,
                   probes, startLog, results,
                   stopsInRow, written, nonServerFileVars>>

\* Lines 479-510: the charts are drawn from the results and saved.
ReportChart ==
    /\ pc = "report_chart"
    /\ written' = written \cup {"chart"}
    /\ pc' = "report_file"
    /\ UNCHANGED <<stopRet, stopExc, pending, nModels, modelIdx, scenIdx,
                   server_process, proc, sigs, startRet, spawnedPid, health,
                   probes, startLog, results, exitPath,
                   stopsInRow, report_calls, nonServerFileVars>>

\* Lines 613-617, 650-653: the report is written, generate_report returns
\* and the try block of main() ends.
MainReport ==
    /\ pc = "report_file"
    /\ written' = written \cup {"report"}
    /\ pc' = "main_finally"
    /\ exitPath' = "completed"
    /\ UNCHANGED <<stopRet, stopExc, pending, nModels, modelIdx, scenIdx,
                   server_process, proc, sigs, startRet, spawnedPid, health,
                   probes, startLog, results,
                   stopsInRow, report_calls, nonServerFileVars>>

\* Line 650: generate_report raises (the chart or the file cannot be
\* written).
MainReportRaises ==
    /\ pc \in {"report_chart", "report_file"}
    /\ MainCatch("Exception")
    /\ UNCHANGED <<stopRet, stopExc, nModels, modelIdx, scenIdx,
                   server_process, proc, sigs, startRet, spawnedPid, health,
                   probes, startLog, results,
                   stopsInRow, nonServerVars>>

\* Lines 660-661: finally: tester.stop_shimmy_server().
MainFinally ==
    /\ pc = "main_finally"
    /\ pc' = "stop_check"
    /\ stopRet' = "main"
    /\ UNCHANGED <<stopExc, pending, nModels, modelIdx, scenIdx,
                   server_process, proc, sigs, startRet, spawnedPid, health,
                   probes, startLog, results, exitPath,
                   stopsInRow, nonServerVars>>

\* -------------------------------------------------------------- GPUMonitor

\* GPUMonitor.__init__, lines 126-129.
InitMonitor ==
    /\ mpc = "idle"
    /\ monitoring = FALSE
    /\ peak_memory = 0
    /\ thread = 0
    /\ tpc = [t \in Tids |-> "none"]
    /\ tmem = [t \in Tids |-> 0]
    /\ tpeak = [t \in Tids |-> 0]
    /\ window = 0
    /\ returned = 0
    /\ joinMayExpire = FALSE
    /\ windowMax = -1

\* A monitoring window is open from the call of start_monitoring to the
\* return of stop_monitoring.
WindowOpen ==
    mpc \in {"start_reset", "start_thread", "window", "stop_join", "stop_return"}

Max(a, b) == IF a >= b THEN a ELSE b

\* Line 133: self.monitoring = True.  (The value the last call returned is no
\* longer held by anyone and is zeroed.)
MonStartFlag ==
    /\ mpc \in {"idle", "returned"}
    /\ window < MaxWindows
    /\ monitoring' = TRUE
    /\ window' = window + 1
    /\ windowMax' = -1
    /\ returned' = 0
    /\ mpc' = "start_reset"
    /\ UNCHANGED <<peak_memory, thread, tpc, tmem, tpeak, joinMayExpire,
                   nonMonitorVars>>

\* Line 134: self.peak_memory = 0.
MonStartReset ==
    /\ mpc = "start_reset"
    /\ peak_memory' = 0
    /\ mpc' = "start_thread"
    /\ UNCHANGED <<monitoring, thread, tpc, tmem, tpeak, window, returned,
                   joinMayExpire, windowMax, nonMonitorVars>>

\* Lines 135-137: a new thread running _monitor_loop is stored and started.
MonStartThread ==
    /\ mpc = "start_thread"
    /\ thread' = window
    /\ tpc' = [tpc EXCEPT ![window] = "check"]
    /\ mpc' = "window"
    /\ UNCHANGED <<monitoring, peak_memory, tmem, tpeak, window, returned,
                   joinMayExpire, windowMax, nonMonitorVars>>

\* Line 141: self.monitoring = False.  The join that follows waits 5 s: a loop
\* that is asleep (1 s) or at its test ends within that; a loop inside a sample
\* (subprocess.run with timeout=5, then the 1 s sleep) may not.
MonStopSignal ==
    /\ mpc = "window"
    /\ monitoring' = FALSE
    /\ joinMayExpire' = (tpc[thread] = "sample")
    /\ mpc' = "stop_join"
    /\ UNCHANGED <<peak_memory, thread, tpc, tmem, tpeak, window, returned,
                   windowMax, nonMonitorVars>>

\* Lines 142-143: self.thread.join(timeout=5) returns, the thread having ended.
MonJoinExited ==
    /\ mpc = "stop_join"
    /\ tpc[thread] = "done"
    /\ mpc' = "stop_return"
    /\ UNCHANGED <<monitoring, peak_memory, thread, tpc, tmem, tpeak, window,
                   returned, joinMayExpire, windowMax, nonMonitorVars>>

\* Line 143: join(timeout=5) returns at its timeout, the thread still running
\* (join reports nothing and the code does not ask is_alive()).
MonJoinExpires ==
    /\ mpc = "stop_join"
    /\ joinMayExpire
    /\ tpc[thread] # "done"
    /\ mpc' = "stop_return"
    /\ UNCHANGED <<monitoring, peak_memory, thread, tpc, tmem, tpeak, window,
                   returned, joinMayExpire, windowMax, nonMonitorVars>>

\* Line 144: return self.peak_memory.
MonStopReturn ==
    /\ mpc = "stop_return"
    /\ returned' = peak_memory
    /\ joinMayExpire' = FALSE
    /\ mpc' = "returned"
    /\ UNCHANGED <<monitoring, peak_memory, thread, tpc, tmem, tpeak, window,
                   windowMax, nonMonitorVars>>

\* Line 148: while self.monitoring.
LoopCheck(t) ==
    /\ tpc[t] = "check"
    /\ tpc' = [tpc EXCEPT ![t] = IF monitoring THEN "sample" ELSE "done"]
    /\ UNCHANGED <<mpc, monitoring, peak_memory, thread, tmem, tpeak, window,
                   returned, joinMayExpire, windowMax, nonMonitorVars>>

\* Lines 150-157: nvidia-smi returns 0 and its output parses: memory_mb = v.
LoopSample(t, v) ==
    /\ tpc[t] = "sample"
    /\ tmem' = [tmem EXCEPT ![t] = v]
    /\ windowMax' = IF WindowOpen THEN Max(windowMax, v) ELSE windowMax
    /\ tpc' = [tpc EXCEPT ![t] = "fold_read"]
    /\ UNCHANGED <<mpc, monitoring, peak_memory, thread, tpeak, window,
                   returned, joinMayExpire, nonMonitorVars>>

\* Lines 150-156: nvidia-smi ends with a non-zero return code: the body of the
\* if is skipped and nothing is logged.
LoopSampleFails(t) ==
    /\ tpc[t] = "sample"
    /\ tpc' = [tpc EXCEPT ![t] = "sleep"]
    /\ UNCHANGED <<mpc, monitoring, peak_memory, thread, tmem, tpeak, window,
                   returned, joinMayExpire, windowMax, nonMonitorVars>>

\* The exception of a failed sample leaves the thread: the loop is over.
LoopSampleRaisesEndsLoop(t) ==
    /\ tpc[t] = "sample"
    /\ tpc' = [tpc EXCEPT ![t] = "done"]
    /\ UNCHANGED <<mpc, monitoring, peak_memory, thread, tmem, tpeak, window,
                   returned, joinMayExpire, windowMax, nonMonitorVars>>

\* Lines 149-159: the sample raises inside the try: nvidia-smi is missing
\* (FileNotFoundError), the 5 s timeout expires (TimeoutExpired), or the
\* output is no number (ValueError from float); except Exception catches it.
LoopSampleRaises(t) ==
    /\ tpc[t] = "sample"
    /\ tpc' = [tpc EXCEPT ![t] = "warn"]
    /\ UNCHANGED <<mpc, monitoring, peak_memory, thread, tmem, tpeak, window,
                   returned, joinMayExpire, windowMax, nonMonitorVars>>

\* Line 160: logger.warning("GPU monitoring error: ...").
LoopWarn(t) ==
    /\ tpc[t] = "warn"
    /\ tpc' = [tpc EXCEPT ![t] = "sleep"]
    /\ UNCHANGED <<mpc, monitoring, peak_memory, thread, tmem, tpeak, window,
                   returned, joinMayExpire, windowMax, nonMonitorVars>>

\* Line 158, first half: max(self.peak_memory, memory_mb) reads the peak.
LoopFoldRead(t) ==
    /\ tpc[t] = "fold_read"
    /\ tpeak' = [tpeak EXCEPT ![t] = peak_memory]
    /\ tpc' = [tpc EXCEPT ![t] = "fold_write"]
    /\ UNCHANGED <<mpc, monitoring, peak_memory, thread, tmem, window,
                   returned, joinMayExpire, windowMax, nonMonitorVars>>

\* Line 158, second half: self.peak_memory = the maximum computed.  (The two
\* locals are dead afterwards and are zeroed to keep the state space small.)
LoopFoldWrite(t) ==
    /\ tpc[t] = "fold_write"
    /\ peak_memory' = Max(tpeak[t], tmem[t])
    /\ tmem' = [tmem EXCEPT ![t] = 0]
    /\ tpeak' = [tpeak EXCEPT ![t] = 0]
    /\ tpc' = [tpc EXCEPT ![t] = "sleep"]
    /\ UNCHANGED <<mpc, monitoring, thread, window, returned, joinMayExpire,
                   windowMax, nonMonitorVars>>

\* Line 161: time.sleep(1).
LoopSleep(t) ==
    /\ tpc[t] = "sleep"
    /\ tpc' = [tpc EXCEPT ![t] = "check"]
    /\ UNCHANGED <<mpc, monitoring, peak_memory, thread, tmem, tpeak, window,
                   returned, joinMayExpire, windowMax, nonMonitorVars>>

\* ------------------------------------------------- ShimmyClient.generate

\* The characters of a response text: a letter and two kinds of whitespace.
Chars == {"a", " ", "\n"}

Whitespace == {" ", "\n"}

RECURSIVE TextsOfLen(_)
TextsOfLen(n) ==
    IF n = 0 THEN {<<>>}
    ELSE {Append(t, c) : t \in TextsOfLen(n - 1), c \in Chars}

\* The response texts a server may send, up to MaxLen characters.
Texts == UNION {TextsOfLen(n) : n \in 0..MaxLen}

\* The elapsed times generate measures (end_time - start_time), in tenths of
\* a second.
ResponseTimes == {62, 124}

\* A Python value that is None or a str.
None == [none |-> TRUE, str |-> ""]

Str(s) == [none |-> FALSE, str |-> s]

\* str(response.status) inside the f-string of line 198.
StatusText(st) ==
    CASE st = 200 -> "200"
      [] st = 500 -> "500"
      [] st = 503 -> "503"

\* What happens to one request.  kind "transport": session.post raises
\* (msg is str(e): aiohttp's ClientConnectorError carries a message, the
\* asyncio.TimeoutError of the 300 s total timeout carries none); "http": a
\* status other than 200 whose body is msg; "badjson": status 200 and
\* response.json() raises (a decoding error, or the timeout while the body is
\* read); "json": status 200 and a body that parses, which is a dictionary
\* whose "response" is a text, a dictionary without "response", a dictionary
\* whose "response" is null, or a list.
NoText == <<>>

Replies ==
    [kind : {"transport"}, status : {0},
     msg : {"Cannot connect to host localhost:11435", ""},
     body : {"none"}, text : {NoText}]
    \cup
    [kind : {"http"}, status : {500, 503}, msg : {"", "model not loaded"},
     body : {"none"}, text : {NoText}]
    \cup
    [kind : {"badjson"}, status : {200},
     msg : {"Expecting value: line 1 column 1 (char 0)", ""},
     body : {"none"}, text : {NoText}]
    \cup
    [kind : {"json"}, status : {200}, msg : {""}, body : {"text"},
     text : Texts]
    \cup
    [kind : {"json"}, status : {200}, msg : {""},
     body : {"missing", "null", "list"}, text : {NoText}]

NoReply == [kind |-> "none", status |-> 0, msg |-> "", body |-> "none",
            text |-> NoText]

NoJson == [body |-> "none", text |-> NoText]

NoResult == [success |-> FALSE, response |-> NoText, tokens |-> 0,
             response_time |-> 0, error |-> None]

\* No generate call is under way (the state of the other specifications).
InitClientIdle ==
    /\ cpc = "idle"
    /\ reply = NoReply
    /\ cexc = ""
    /\ cjson = NoJson
    /\ gresult = NoResult

\* Lines 180-190: the payload is built, start_time is taken, and the request
\* is about to be posted; what will happen to it is any of Replies.
InitClient ==
    /\ cpc = "post"
    /\ reply \in Replies
    /\ cexc = ""
    /\ cjson = NoJson
    /\ gresult = NoResult

\* str.split(" "): the text is cut at every single space, empty pieces kept.
RECURSIVE SplitOnSpace(_)
SplitOnSpace(s) ==
    IF s = <<>> THEN << <<>> >>
    ELSE LET r == SplitOnSpace(Tail(s))
         IN  IF Head(s) = " " THEN << <<>> >> \o r
             ELSE << <<Head(s)>> \o Head(r) >> \o Tail(r)

\* str.split() without a separator, as CPython scans: skip a run of
\* whitespace, then take the characters up to the next whitespace as a word.
RECURSIVE SkipSpace(_, _)
SkipSpace(s, i) ==
    IF i <= Len(s) /\ s[i] \in Whitespace THEN SkipSpace(s, i + 1) ELSE i

RECURSIVE WordEnd(_, _)
WordEnd(s, i) ==
    IF i <= Len(s) /\ s[i] \notin Whitespace THEN WordEnd(s, i + 1) ELSE i

RECURSIVE SplitFrom(_, _)
SplitFrom(s, i) ==
    LET j == SkipSpace(s, i)
    IN  IF j > Len(s) THEN <<>>
        ELSE LET k == WordEnd(s, j)
             IN  <<SubSeq(s, j, k - 1)>> \o SplitFrom(s, k)

\* Line 206: result.get("response", "").split().
Split(s) == SplitFrom(s, 1)

\* Lines 191-195: session.post raises before there is a response.
GenPostRaises ==
    /\ cpc = "post"
    /\ reply.kind = "transport"
    /\ cexc' = reply.msg
    /\ cpc' = "except"
    /\ UNCHANGED <<reply, cjson, gresult, nonClientVars>>

\* Lines 191-195: the response arrives.
GenPostAnswers ==
    /\ cpc = "post"
    /\ reply.kind # "transport"
    /\ cpc' = "status"
    /\ UNCHANGED <<reply, cexc, cjson, gresult, nonClientVars>>

\* Lines 196-198: the status is not 200: the body is read and
\* Exception("API error <status>: <body>") is raised.
GenStatusError ==
    /\ cpc = "status"
    /\ reply.status # 200
    /\ cexc' = "API error " \o StatusText(reply.status) \o ": " \o reply.msg
    /\ cpc' = "except"
    /\ UNCHANGED <<reply, cjson, gresult, nonClientVars>>

\* Line 200: result = await response.json().
GenJson ==
    /\ cpc = "status"
    /\ reply.status = 200
    /\ reply.kind = "json"
    /\ cjson' = [body |-> reply.body, text |-> reply.text]
    /\ cpc' = "build"
    /\ UNCHANGED <<reply, cexc, gresult, nonClientVars>>

\* Line 200: response.json() raises.
GenJsonRaises ==
    /\ cpc = "status"
    /\ reply.status = 200
    /\ reply.kind = "badjson"
    /\ cexc' = reply.msg
    /\ cpc' = "except"
    /\ UNCHANGED <<reply, cjson, gresult, nonClientVars>>

\* result.get("response", ""): the text, or "" when the key is missing.
GetResponse(j) == IF j.body = "text" THEN j.text ELSE NoText

\* Lines 201-209: the dictionary of a success.
GenReturn(rt) ==
    /\ cpc = "build"
    /\ cjson.body \in {"text", "missing"}
    /\ gresult' = [success |-> TRUE,
                   response |-> GetResponse(cjson),
                   tokens |-> Len(Split(GetResponse(cjson))),
                   response_time |-> rt,
                   error |-> None]
    /\ cpc' = "done"
    /\ UNCHANGED <<reply, cexc, cjson, nonClientVars>>

\* Lines 205-206: the body is no dictionary (a list has no get), or its
\* "response" is null (None has no split): AttributeError.
GenBuildRaises ==
    /\ cpc = "build"
    /\ cjson.body \in {"null", "list"}
    /\ cexc' = IF cjson.body = "null"
               THEN "'NoneType' object has no attribute 'split'"
               ELSE "'list' object has no attribute 'get'"
    /\ cpc' = "except"
    /\ UNCHANGED <<reply, cjson, gresult, nonClientVars>>

\* Lines 211-219: except Exception as e: the dictionary of a failure, whose
\* error is str(e).
GenExcept(rt) ==
    /\ cpc = "except"
    /\ gresult' = [success |-> FALSE,
                   response |-> NoText,
                   tokens |-> 0,
                   response_time |-> rt,
                   error |-> Str(cexc)]
    /\ cpc' = "done"
    /\ UNCHANGED <<reply, cexc, cjson, nonClientVars>>

\* ------------------------------------------------------ the scenarios

\* The ways a request ends, as the scenario sees them: "full" is a success
\* of 210 tokens after 12.4 s, "empty" a success with an empty response (0
\* tokens) after 6.2 s, "error" a result with success False, and "raised" a
\* coroutine that ended by an exception, which gather(return_exceptions=True)
\* puts in the place of a result.
OkTypes == {"full", "empty"}

ResultTypes == OkTypes \cup {"error"}

GatherTypes == ResultTypes \cup {"raised"}

\* result["tokens"] of a success.
Tokens(o) == IF o = "full" THEN 210 ELSE 0

\* result["response_time"] of a success, in tenths of a second.
Time(o) == IF o = "full" THEN 124 ELSE 62

NoOutcomes == [o \in GatherTypes |-> 0]

Count(bag) == bag["full"] + bag["empty"] + bag["error"] + bag["raised"]

\* A quotient a / b of Python, kept exact as numerator and denominator; a
\* denominator of 0 stands for the ZeroDivisionError the division raises.
Div(a, b) == [n |-> a, d |-> b]

\* The int 0 of the else branches.
Zero == [n |-> 0, d |-> 1]

NoMetrics == [test |-> 0, tokens_generated |-> 0, total_time_seconds |-> 0,
              tokens_per_second |-> Zero, average_response_time_ms |-> Zero,
              success_rate |-> Zero]

\* The requests a scenario makes: lines 299-300 (every category, its first
\* two prompts), lines 341-353 (every long prompt), lines 397-405 (every
\* round, every category).
Attempts(s) ==
    CASE s = 1 -> NumCategories * (IF BasicSlice < PromptsPerCategory
                                   THEN BasicSlice ELSE PromptsPerCategory)
      [] s = 2 -> NumLongPrompts
      [] s = 3 -> NumRounds * NumCategories

\* The tokens_per_second of a record without the test of total_time.
TokensPerSecondUnguarded(tokens, time) == Div(tokens * 10, time)

\* Lines 325, 378, 432: total_tokens / total_time if total_time > 0 else 0
\* (total_time is in tenths of a second here, hence the 10).
TokensPerSecond(tokens, time) ==
    IF time > 0 THEN Div(tokens * 10, time) ELSE Zero

\* The average_response_time_ms of a record without the test of the count.
AverageResponseTimeUnguarded(time, n) == Div(time * 100, n)

\* Lines 328, 381, 435: (total_time / successful_requests) * 1000 if
\* successful_requests > 0 else 0 (tenths of a second to ms: the 100).
AverageResponseTime(time, n) ==
    IF n > 0 THEN Div(time * 100, n) ELSE Zero

\* The success_rate of a record with the basic scenario divided by the
\* categories alone.
SuccessRateByCategories(s, n, made) ==
    CASE s = 1 -> Div(n, NumCategories)
      [] s = 2 -> Div(n, NumLongPrompts)
      [] s = 3 -> Div(n, made)

\* Lines 329, 382, 436: successful_requests / (len(TEST_PROMPTS) * 2),
\* / len(long_prompts), / len(concurrent_requests).
SuccessRate(s, n, made) ==
    CASE s = 1 -> Div(n, NumCategories * 2)
      [] s = 2 -> Div(n, NumLongPrompts)
      [] s = 3 -> Div(n, made)

\* No scenario is under way (the state of the other specifications).
InitScenarioIdle ==
    /\ spc = "idle"
    /\ sIdx = 0
    /\ session = "none"
    /\ nreq = 0
    /\ inflight = 0
    /\ total_tokens = 0
    /\ total_time = 0
    /\ successful_requests = 0
    /\ outcomes = NoOutcomes
    /\ unprocessed = NoOutcomes
    /\ metrics = NoMetrics
    /\ nRecords = 0
    /\ sraised = "none"
    /\ protocol = <<>>
    /\ monitored = FALSE

\* run_all_tests_for_model, lines 449-452: the server is up, results is
\* empty, and the first scenario is about to be awaited.
InitScenario ==
    /\ spc = "begin"
    /\ sIdx = 1
    /\ session = "none"
    /\ nreq = 0
    /\ inflight = 0
    /\ total_tokens = 0
    /\ total_time = 0
    /\ successful_requests = 0
    /\ outcomes = NoOutcomes
    /\ unprocessed = NoOutcomes
    /\ metrics = NoMetrics
    /\ nRecords = 0
    /\ sraised = "none"
    /\ protocol = <<>>
    /\ monitored = FALSE

\* Lines 286-288, 333-335, 386-388: the scenario is entered: its locals are
\* fresh (the sums are zeroed at lines 294-296, 347-349 and, in the concurrent
\* scenario, at lines 411-413) and its ShimmyClient is not built yet.
ScenBegin ==
    /\ spc = "begin"
    /\ session' = "none"
    /\ nreq' = 0
    /\ total_tokens' = 0
    /\ total_time' = 0
    /\ successful_requests' = 0
    /\ outcomes' = NoOutcomes
    /\ unprocessed' = NoOutcomes
    /\ metrics' = NoMetrics
    /\ protocol' = <<>>
    /\ spc' = "start_time"
    /\ UNCHANGED <<sIdx, inflight, nRecords, sraised, monitored,
                   nonScenVars>>

\* Lines 290, 337, 390: start_time = datetime.now().
ScenStartTime ==
    /\ spc = "start_time"
    /\ protocol' = Append(protocol, "start_time")
    /\ spc' = "start_monitoring"
    /\ UNCHANGED <<sIdx, session, nreq, inflight, total_tokens, total_time,
                   successful_requests, outcomes, unprocessed, metrics,
                   nRecords, sraised, monitored, nonScenVars>>

\* A scenario that goes on without starting the monitor.
ScenStartMonitoringSkipped ==
    /\ spc = "start_monitoring"
    /\ spc' = "aenter"
    /\ UNCHANGED <<sIdx, session, nreq, inflight, total_tokens, total_time,
                   successful_requests, outcomes, unprocessed, metrics,
                   nRecords, sraised, protocol, monitored, nonScenVars>>

\* Lines 291, 338, 391: self.gpu_monitor.start_monitoring().
ScenStartMonitoring ==
    /\ spc = "start_monitoring"
    /\ monitored' = TRUE
    /\ protocol' = Append(protocol, "start_monitoring")
    /\ spc' = "aenter"
    /\ UNCHANGED <<sIdx, session, nreq, inflight, total_tokens, total_time,
                   successful_requests, outcomes, unprocessed, metrics,
                   nRecords, sraised, nonScenVars>>

\* Lines 298, 351, 396 and 170-172: async with ShimmyClient() as client:
\* __aenter__ opens the session.
ScenEnter ==
    /\ spc = "aenter"
    /\ session' = "open"
    /\ spc' = IF sIdx = 3 THEN "create" ELSE "loop"
    /\ UNCHANGED <<sIdx, nreq, inflight, total_tokens, total_time,
                   successful_requests, outcomes, unprocessed, metrics,
                   nRecords, sraised, protocol, monitored,
                   nonScenVars>>

\* Lines 299-305, 352-357: the next prompt: result = await client.generate.
SeqIssue ==
    /\ spc = "loop"
    /\ nreq < Attempts(sIdx)
    /\ nreq' = nreq + 1
    /\ inflight' = 1
    /\ protocol' = IF nreq = 0 THEN Append(protocol, "prompts") ELSE protocol
    /\ spc' = "await"
    /\ UNCHANGED <<sIdx, session, total_tokens, total_time,
                   successful_requests, outcomes, unprocessed, metrics,
                   nRecords, sraised, monitored, nonScenVars>>

\* The fold of the sequential scenarios with every result counted a success.
SeqCompleteCountsAll(o) ==
    /\ spc = "await"
    /\ inflight' = 0
    /\ outcomes' = [outcomes EXCEPT ![o] = @ + 1]
    /\ total_tokens' = total_tokens + Tokens(o)
    /\ total_time' = total_time + Time(o)
    /\ successful_requests' = successful_requests + 1
    /\ spc' = "loop"
    /\ UNCHANGED <<sIdx, session, nreq, unprocessed, metrics, nRecords,
                   sraised, protocol, monitored,
                   nonScenVars>>

\* Lines 301-312, 353-364: generate returns o and the result is folded: a
\* success adds its tokens and its time and counts, a failure is logged.
SeqComplete(o) ==
    /\ spc = "await"
    /\ inflight' = 0
    /\ outcomes' = [outcomes EXCEPT ![o] = @ + 1]
    /\ IF o \in OkTypes
       THEN /\ total_tokens' = total_tokens + Tokens(o)
            /\ total_time' = total_time + Time(o)
            /\ successful_requests' = successful_requests + 1
       ELSE UNCHANGED <<total_tokens, total_time, successful_requests>>
    /\ spc' = "loop"
    /\ UNCHANGED <<sIdx, session, nreq, unprocessed, metrics, nRecords,
                   sraised, protocol, monitored,
                   nonScenVars>>

\* Lines 301, 353: the await is interrupted (the task is cancelled on
\* Ctrl-C): the request ends with it and the exception leaves the with block.
SeqInterrupt ==
    /\ spc = "await"
    /\ inflight' = 0
    /\ sraised' = "interrupt"
    /\ spc' = "aexit"
    /\ UNCHANGED <<sIdx, session, nreq, total_tokens, total_time,
                   successful_requests, outcomes, unprocessed, metrics,
                   nRecords, protocol, monitored,
                   nonScenVars>>

\* Lines 299-300, 352: the prompts are exhausted.
SeqLoopEnd ==
    /\ spc = "loop"
    /\ nreq = Attempts(sIdx)
    /\ spc' = "aexit"
    /\ UNCHANGED <<sIdx, session, nreq, inflight, total_tokens, total_time,
                   successful_requests, outcomes, unprocessed, metrics,
                   nRecords, sraised, protocol, monitored,
                   nonScenVars>>

\* Lines 397-405: the generate coroutines are created and appended to
\* concurrent_requests; none runs yet.
ConcCreate ==
    /\ spc = "create"
    /\ nreq' = Attempts(sIdx)
    /\ spc' = "gather"
    /\ UNCHANGED <<sIdx, session, inflight, total_tokens, total_time,
                   successful_requests, outcomes, unprocessed, metrics,
                   nRecords, sraised, protocol, monitored,
                   nonScenVars>>

\* Line 408: asyncio.gather schedules every coroutine and awaits them all.
ConcGather ==
    /\ spc = "gather"
    /\ inflight' = nreq
    /\ protocol' = Append(protocol, "prompts")
    /\ spc' = "gathering"
    /\ UNCHANGED <<sIdx, session, nreq, total_tokens, total_time,
                   successful_requests, outcomes, unprocessed, metrics,
                   nRecords, sraised, monitored, nonScenVars>>

\* A gather in which a request that fails cancels the requests still running.
ConcCompleteAborts(o) ==
    /\ spc = "gathering"
    /\ inflight > 0
    /\ inflight' = IF o \in OkTypes THEN inflight - 1 ELSE 0
    /\ outcomes' = [outcomes EXCEPT ![o] = @ + 1]
    /\ UNCHANGED <<spc, sIdx, session, nreq, total_tokens, total_time,
                   successful_requests, unprocessed, metrics, nRecords,
                   sraised, protocol, monitored,
                   nonScenVars>>

\* Line 408: one of the requests in flight ends, in any order, as o; with
\* return_exceptions=True its result or its exception is kept and the others
\* go on.
ConcComplete(o) ==
    /\ spc = "gathering"
    /\ inflight > 0
    /\ inflight' = inflight - 1
    /\ outcomes' = [outcomes EXCEPT ![o] = @ + 1]
    /\ UNCHANGED <<spc, sIdx, session, nreq, total_tokens, total_time,
                   successful_requests, unprocessed, metrics, nRecords,
                   sraised, protocol, monitored,
                   nonScenVars>>

\* Line 408: every request has ended: gather returns the list of results.
ConcGathered ==
    /\ spc = "gathering"
    /\ inflight = 0
    /\ unprocessed' = outcomes
    /\ spc' = "aexit"
    /\ UNCHANGED <<sIdx, session, nreq, inflight, total_tokens, total_time,
                   successful_requests, outcomes, metrics, nRecords, sraised,
                   protocol, monitored,
                   nonScenVars>>

\* Line 408: the await of gather is interrupted: gather cancels the requests
\* still running, and the task is resumed with the exception once they have
\* all ended; the results collected so far are dropped.
ConcInterrupt ==
    /\ spc = "gathering"
    /\ inflight > 0
    /\ inflight' = 0
    /\ outcomes' = NoOutcomes
    /\ sraised' = "interrupt"
    /\ spc' = "aexit"
    /\ UNCHANGED <<sIdx, session, nreq, total_tokens, total_time,
                   successful_requests, unprocessed, metrics, nRecords,
                   protocol, monitored,
                   nonScenVars>>

\* An __aexit__ that leaves the session as it is.
AExitLeavesOpen ==
    /\ spc = "aexit"
    /\ spc' = IF sraised # "none" THEN "raised"
              ELSE IF sIdx = 3 THEN "process" ELSE "stop_monitoring"
    /\ UNCHANGED <<sIdx, session, nreq, inflight, total_tokens, total_time,
                   successful_requests, outcomes, unprocessed, metrics,
                   nRecords, sraised, protocol, monitored,
                   nonScenVars>>

\* Lines 174-176: the with block is left, normally or by an exception:
\* __aexit__ closes the session; an exception then leaves the scenario.
AExit ==
    /\ spc = "aexit"
    /\ session' = "closed"
    /\ spc' = IF sraised # "none" THEN "raised"
              ELSE IF sIdx = 3 THEN "process" ELSE "stop_monitoring"
    /\ UNCHANGED <<sIdx, nreq, inflight, total_tokens, total_time,
                   successful_requests, outcomes, unprocessed, metrics,
                   nRecords, sraised, protocol, monitored,
                   nonScenVars>>

\* The result the loop of line 415 visits next.  gather returns the results
\* in the order of the requests; the requests are interchangeable here, and
\* the list is walked grouped by outcome.
NextResult(bag) ==
    IF bag["full"] > 0 THEN "full"
    ELSE IF bag["error"] > 0 THEN "error"
    ELSE IF bag["raised"] > 0 THEN "raised"
    ELSE "empty"

\* The fold of the concurrent scenario with the times added up.
ConcProcessSums ==
    /\ spc = "process"
    /\ Count(unprocessed) > 0
    /\ LET o == NextResult(unprocessed)
       IN  /\ unprocessed' = [unprocessed EXCEPT ![o] = @ - 1]
           /\ IF o \in OkTypes
              THEN /\ total_tokens' = total_tokens + Tokens(o)
                   /\ total_time' = total_time + Time(o)
                   /\ successful_requests' = successful_requests + 1
              ELSE UNCHANGED <<total_tokens, total_time, successful_requests>>
    /\ UNCHANGED <<spc, sIdx, session, nreq, inflight, outcomes, metrics,
                   nRecords, sraised, protocol, monitored,
                   nonScenVars>>

\* Lines 415-419: one result is visited: a dictionary with success True adds
\* its tokens, raises total_time to its time if that is larger, and counts;
\* an error result or an exception object is passed over.
ConcProcess ==
    /\ spc = "process"
    /\ Count(unprocessed) > 0
    /\ LET o == NextResult(unprocessed)
       IN  /\ unprocessed' = [unprocessed EXCEPT ![o] = @ - 1]
           /\ IF o \in OkTypes
              THEN /\ total_tokens' = total_tokens + Tokens(o)
                   /\ total_time' = Max(total_time, Time(o))
                   /\ successful_requests' = successful_requests + 1
              ELSE UNCHANGED <<total_tokens, total_time, successful_requests>>
    /\ UNCHANGED <<spc, sIdx, session, nreq, inflight, outcomes, metrics,
                   nRecords, sraised, protocol, monitored,
                   nonScenVars>>

\* Line 415: the results are exhausted.
ConcProcessEnd ==
    /\ spc = "process"
    /\ Count(unprocessed) = 0
    /\ spc' = "stop_monitoring"
    /\ UNCHANGED <<sIdx, session, nreq, inflight, total_tokens, total_time,
                   successful_requests, outcomes, unprocessed, metrics,
                   nRecords, sraised, protocol, monitored,
                   nonScenVars>>

\* Lines 314, 367, 421: peak_gpu_memory = self.gpu_monitor.stop_monitoring().
ScenStopMonitoring ==
    /\ spc = "stop_monitoring"
    /\ monitored' = FALSE
    /\ protocol' = Append(protocol, "stop_monitoring")
    /\ spc' = "end_time"
    /\ UNCHANGED <<sIdx, session, nreq, inflight, total_tokens, total_time,
                   successful_requests, outcomes, unprocessed, metrics,
                   nRecords, sraised, nonScenVars>>

\* Lines 316, 369, 423: end_time = datetime.now().
ScenEndTime ==
    /\ spc = "end_time"
    /\ protocol' = Append(protocol, "end_time")
    /\ spc' = "metrics"
    /\ UNCHANGED <<sIdx, session, nreq, inflight, total_tokens, total_time,
                   successful_requests, outcomes, unprocessed, metrics,
                   nRecords, sraised, monitored, nonScenVars>>

\* Lines 318-331, 371-384, 425-438: the TestMetrics is built and returned; a
\* division by zero in it would leave the scenario as a ZeroDivisionError.
\* Lines 452-464: run_all_tests_for_model appends the record and awaits the
\* next scenario.
ScenMetrics ==
    /\ spc = "metrics"
    /\ LET tps  == TokensPerSecond(total_tokens, total_time)
           avg  == AverageResponseTime(total_time, successful_requests)
           rate == SuccessRate(sIdx, successful_requests, nreq)
       IN  IF tps.d = 0 \/ avg.d = 0 \/ rate.d = 0
           THEN /\ sraised' = "ZeroDivisionError"
                /\ spc' = "raised"
                /\ UNCHANGED <<metrics, nRecords, sIdx, protocol>>
           ELSE /\ metrics' = [test |-> sIdx,
                               tokens_generated |-> total_tokens,
                               total_time_seconds |-> total_time,
                               tokens_per_second |-> tps,
                               average_response_time_ms |-> avg,
                               success_rate |-> rate]
                /\ nRecords' = nRecords + 1
                /\ protocol' = Append(protocol, "record")
                /\ IF sIdx < NumScenarios
                   THEN sIdx' = sIdx + 1 /\ spc' = "begin"
                   ELSE sIdx' = sIdx /\ spc' = "finished"
                /\ UNCHANGED sraised
    /\ UNCHANGED <<session, nreq, inflight, total_tokens, total_time,
                   successful_requests, outcomes, unprocessed, monitored,
                   nonScenVars>>

\* ------------------------------------------------- the order of a run

\* The registry MODELS (lines 64-92), as the names of its entries in order.
MODELS == <<"gpt-oss-20b-f16", "phi-3.5-moe-instruct-f16",
            "deepseek-moe-16b-f16">>

Range(f) == {f[i] : i \in DOMAIN f}

RECURSIVE SeqsUpTo(_, _)
SeqsUpTo(S, n) ==
    IF n = 0 THEN {<<>>}
    ELSE LET shorter == SeqsUpTo(S, n - 1)
         IN  shorter \cup {Append(q, x) : q \in shorter, x \in S}

\* The --models lists argparse accepts (nargs='+', choices the registry's
\* names; a name may be repeated), and <<>> for an absent option.
ModelArgs == SeqsUpTo(Range(MODELS), MaxArgs)

\* No run is followed (the state of the other specifications).
InitOrderIdle ==
    /\ opc = "idle"
    /\ argsModels = <<>>
    /\ models_to_test = <<>>
    /\ oIdx = 0
    /\ oScen = 0
    /\ order = <<>>

\* main(), line 631: the command line is parsed.
InitOrder ==
    /\ opc = "select"
    /\ argsModels \in ModelArgs
    /\ models_to_test = <<>>
    /\ oIdx = 0
    /\ oScen = 0
    /\ order = <<>>

\* The models in the order the command line names them.
ModelsInArgsOrder(reg, names) == names

\* Line 634: [m for m in MODELS if m.name in args.models].
RECURSIVE FilterRegistry(_, _)
FilterRegistry(reg, names) ==
    IF reg = <<>> THEN <<>>
    ELSE (IF Head(reg) \in Range(names) THEN <<Head(reg)>> ELSE <<>>)
         \o FilterRegistry(Tail(reg), names)

\* Line 634: models_to_test = MODELS if not args.models else the filter.
OrdSelect ==
    /\ opc = "select"
    /\ models_to_test' = IF argsModels = <<>> THEN MODELS
                         ELSE FilterRegistry(MODELS, argsModels)
    /\ opc' = "loop"
    /\ UNCHANGED <<argsModels, oIdx, oScen, order, nonOrderVars>>

\* Lines 642-644: the next model of models_to_test; its server is started.
OrdNextModel ==
    /\ opc = "loop"
    /\ oIdx < Len(models_to_test)
    /\ oIdx' = oIdx + 1
    /\ opc' = "start"
    /\ UNCHANGED <<argsModels, models_to_test, oScen, order, nonOrderVars>>

\* Lines 444-446, 647: the start fails: the run of the model returns, and
\* after the pause the loop goes on.
OrdStartFails ==
    /\ opc = "start"
    /\ opc' = "loop"
    /\ UNCHANGED <<argsModels, models_to_test, oIdx, oScen, order,
                   nonOrderVars>>

\* Lines 444-449: the server is up; the scenarios begin with the basic one.
OrdStartOk ==
    /\ opc = "start"
    /\ oScen' = 1
    /\ opc' = "scenario"
    /\ UNCHANGED <<argsModels, models_to_test, oIdx, order, nonOrderVars>>

\* Lines 452-467, 647: the scenario returns and its record is appended; the
\* next scenario follows and, after the concurrent one, the pause and the
\* loop.
OrdScenario ==
    /\ opc = "scenario"
    /\ order' = Append(order, <<models_to_test[oIdx], oScen>>)
    /\ IF oScen < NumScenarios
       THEN oScen' = oScen + 1 /\ UNCHANGED opc
       ELSE opc' = "loop" /\ UNCHANGED oScen
    /\ UNCHANGED <<argsModels, models_to_test, oIdx, nonOrderVars>>

\* Lines 655-659: an exception or an interrupt, during the start, a scenario
\* or the pause, ends the loop.
OrdAbort ==
    /\ opc \in {"start", "scenario"}
    /\ opc' = "ended"
    /\ UNCHANGED <<argsModels, models_to_test, oIdx, oScen, order,
                   nonOrderVars>>

\* Lines 650-653: the models are exhausted: the report, and the end.
OrdReport ==
    /\ opc = "loop"
    /\ oIdx = Len(models_to_test)
    /\ opc' = "ended"
    /\ UNCHANGED <<argsModels, models_to_test, oIdx, oScen, order,
                   nonOrderVars>>

\* ------------------------------------------------------- generate_report

\* The values of a numeric field of a record, in its unit (MB, per cent, ms).
Readings == {0, 1}

\* The TestMetrics records the report reads, with the fields it aggregates.
Rows == [model_name : {MODELS[1], MODELS[2]}, peak_gpu_memory_mb : Readings,
         success_rate : Readings, average_response_time_ms : Readings]

NoSummary == [made |-> FALSE]

\* No report is made (the state of the other specifications).
InitReportIdle ==
    /\ rpc = "idle"
    /\ rows = <<>>
    /\ summary = NoSummary

\* generate_report is called on a collection of up to MaxRows records.
InitReport ==
    /\ rpc = "report"
    /\ rows \in SeqsUpTo(Rows, MaxRows)
    /\ summary = NoSummary

\* The sum of a column, added up row by row.
RECURSIVE SumFrom(_, _, _)
SumFrom(column, i, acc) ==
    IF i > Len(column) THEN acc
    ELSE SumFrom(column, i + 1, acc + column[i])

\* The last value of a column in place of its mean.
MeanOfLast(column) == Div(column[Len(column)], 1)

\* Series.mean(): the sum of the column over its length.
Mean(column) == Div(SumFrom(column, 1, 0), Len(column))

\* df[field]: the column of a field, in the order of the rows.
Column(df, field) == [i \in 1..Len(df) |-> df[i][field]]

\* df.groupby('model_name'): the rows of a model, in their order.
Group(df, m) == SelectSeq(df, LAMBDA r : r.model_name = m)

\* The fields the report takes the means of (lines 491, 497, 504, 544-550).
Fields == {"peak_gpu_memory_mb", "success_rate", "average_response_time_ms"}

\* Lines 479-550: the means per model, keyed by the names that occur, and
\* the means over all rows.
Aggregates(df) ==
    [made |-> TRUE,
     by_model |-> [m \in {df[i].model_name : i \in 1..Len(df)} |->
                      [f \in Fields |-> Mean(Column(Group(df, m), f))]],
     overall |-> [f \in Fields |-> Mean(Column(df, f))]]

\* Lines 474-476: nothing to report.
ReportNothing ==
    /\ rpc = "report"
    /\ rows = <<>>
    /\ rpc' = "reported"
    /\ UNCHANGED <<rows, summary, nonReportVars>>

\* Lines 479-550: the data frame of the records and its aggregates.
ReportAggregates ==
    /\ rpc = "report"
    /\ rows # <<>>
    /\ summary' = Aggregates(rows)
    /\ rpc' = "reported"
    /\ UNCHANGED <<rows, nonReportVars>>

\* The same records in another order (rows i and j change places); the
\* report is then made again.
Reorder(i, j) ==
    /\ rpc = "reported"
    /\ i < j /\ j <= Len(rows)
    /\ rows' = [rows EXCEPT ![i] = rows[j], ![j] = rows[i]]
    /\ rpc' = "report"
    /\ UNCHANGED <<summary, nonReportVars>>

\* ------------------------------------------- execute_streaming_test

\* The characters of a payload (iter_lines splits the body at the line
\* ends, so a line holds none).
StreamChars == {"a", " "}

\* The text '[DONE]', kept as one symbol.
DoneText == <<"[DONE]">>

\* What follows the first six characters of a line: a text of up to
\* MaxPayload characters, or '[DONE]'.
Payloads == SeqsUpTo(StreamChars, MaxPayload) \cup {DoneText}

\* A line of the body: its first six characters if they are 'data: ' (head),
\* and the rest of it; with head "" the line is its payload alone, a line
\* that is empty or does not start with 'data: '.
DataPrefix == "data: "

StreamLines == [head : {DataPrefix, ""}, payload : Payloads]

\* No streamed response is read (the state of the other specifications).
InitStreamIdle ==
    /\ stpc = "idle"
    /\ lines = <<>>
    /\ lineIdx = 0
    /\ full_response = <<>>
    /\ token_count = 0

\* Lines 65-74: the response has status 200; the accumulators are empty.
InitStream ==
    /\ stpc = "loop"
    /\ lines \in SeqsUpTo(StreamLines, MaxLines)
    /\ lineIdx = 0
    /\ full_response = <<>>
    /\ token_count = 0

\* str.strip(): the text without its leading and trailing whitespace.
RECURSIVE LStrip(_)
LStrip(t) ==
    IF t # <<>> /\ Head(t) \in Whitespace THEN LStrip(Tail(t)) ELSE t

RECURSIVE RStrip(_)
RStrip(t) ==
    IF t # <<>> /\ t[Len(t)] \in Whitespace
    THEN RStrip(SubSeq(t, 1, Len(t) - 1)) ELSE t

Strip(t) == RStrip(LStrip(t))

\* Line 77: line and line.startswith('data: ').
IsData(line) == line.head = DataPrefix

\* Lines 76-77: the next line is empty or lacks the prefix: it is passed over.
StreamOther ==
    /\ stpc = "loop"
    /\ lineIdx < Len(lines)
    /\ ~IsData(lines[lineIdx + 1])
    /\ lineIdx' = lineIdx + 1
    /\ UNCHANGED <<stpc, lines, full_response, token_count, nonStreamVars>>

\* Lines 76-81: the next line is 'data: [DONE]': break.
StreamDone ==
    /\ stpc = "loop"
    /\ lineIdx < Len(lines)
    /\ IsData(lines[lineIdx + 1])
    /\ lines[lineIdx + 1].payload = DoneText
    /\ lineIdx' = lineIdx + 1
    /\ stpc' = "done"
    /\ UNCHANGED <<lines, full_response, token_count, nonStreamVars>>

\* Lines 76-83: a data line whose payload is empty or all whitespace: nothing
\* is done with it.
StreamBlank ==
    /\ stpc = "loop"
    /\ lineIdx < Len(lines)
    /\ IsData(lines[lineIdx + 1])
    /\ lines[lineIdx + 1].payload # DoneText
    /\ Strip(lines[lineIdx + 1].payload) = <<>>
    /\ lineIdx' = lineIdx + 1
    /\ UNCHANGED <<stpc, lines, full_response, token_count, nonStreamVars>>

\* Lines 76-89: a data line with a payload: it is added to full_response and
\* counted.
StreamToken ==
    /\ stpc = "loop"
    /\ lineIdx < Len(lines)
    /\ IsData(lines[lineIdx + 1])
    /\ lines[lineIdx + 1].payload # DoneText
    /\ Strip(lines[lineIdx + 1].payload) # <<>>
    /\ full_response' = full_response \o lines[lineIdx + 1].payload
    /\ token_count' = token_count + 1
    /\ lineIdx' = lineIdx + 1
    /\ UNCHANGED <<stpc, lines, nonStreamVars>>

\* Line 76: the body ends without a terminator.
StreamExhausted ==
    /\ stpc = "loop"
    /\ lineIdx = Len(lines)
    /\ stpc' = "done"
    /\ UNCHANGED <<lines, lineIdx, full_response, token_count, nonStreamVars>>

\* ------------------------------------------- run_cross_validation_test

\* The body of an answer, by what json.loads makes of it: an object with
\* text_blocks, another non-empty object, the empty object, null, a value
\* that is true but no object (a string, a list), or no JSON at all.
JsonBodies == {"blocks", "object", "empty", "null", "text", "unparseable"}

\* The answers to the POST of line 94: an HTTP status with a body, or no
\* answer (the connection fails or times out).
VisionReplies ==
    [kind : {"http"}, status : {200, 402, 500}, body : JsonBodies]
        \cup {[kind |-> "exception", status |-> 0, body |-> "null"]}

\* Python values: json.loads of a body (null is None), and the dictionary of
\* line 105.
Loads(body) == IF body = "null" THEN "None" ELSE body

Fallback == "license_required"

\* bool(value).
Truthy(value) == value \notin {"None", "empty", "unset"}

NoTestResults ==
    [server_started |-> FALSE, vision_tests |-> <<>>,
     license_validation |-> FALSE, performance_warnings |-> 0,
     errors |-> <<>>]

\* No cross-validation test runs (the state of the other specifications).
InitVisionIdle ==
    /\ vpc = "idle"
    /\ cpu_only = FALSE
    /\ vreply = [kind |-> "exception", status |-> 0, body |-> "null"]
    /\ response = "unset"
    /\ is_license_error = FALSE
    /\ test_results = NoTestResults
    /\ success = FALSE
    /\ vexc = "none"
    /\ vserver = "none"

\* Lines 153-166: test_results is set up and the server is spawned.
InitVision ==
    /\ vpc = "wait"
    /\ cpu_only \in BOOLEAN
    /\ vreply \in VisionReplies
    /\ response = "unset"
    /\ is_license_error = FALSE
    /\ test_results = NoTestResults
    /\ success = FALSE
    /\ vexc = "none"
    /\ vserver = "running"

\* The spawned server ends by itself while the test runs (it cannot bind the
\* port, it crashes).
VisServerExits ==
    /\ vpc \in {"wait", "image", "request", "record", "judge", "finally"}
    /\ vserver = "running"
    /\ vserver' = "exited"
    /\ UNCHANGED <<vpc, cpu_only, vreply, response, is_license_error,
                   test_results, success, vexc, nonVisionVars>>

\* Lines 93-111: what test_vision_processing returns for an answer.
TestVisionProcessing(r) ==
    IF r.kind = "exception" THEN <<"None", FALSE>>
    ELSE IF r.status = 200
         THEN (IF r.body = "unparseable" THEN <<"None", FALSE>>
               ELSE <<Loads(r.body), FALSE>>)
         ELSE IF r.status = 402
              THEN (IF r.body = "unparseable" THEN <<Fallback, TRUE>>
                    ELSE <<Loads(r.body), TRUE>>)
              ELSE <<"None", FALSE>>

\* Lines 168-170: the server does not become ready.
VisWaitFails ==
    /\ vpc = "wait"
    /\ test_results' = [test_results EXCEPT
                           !.errors = Append(@, "Server failed to start")]
    /\ success' = FALSE
    /\ vpc' = "finally"
    /\ UNCHANGED <<cpu_only, vreply, response, is_license_error, vexc,
                   vserver, nonVisionVars>>

\* Lines 168-172: the server is ready.
VisWaitOk ==
    /\ vpc = "wait"
    /\ test_results' = [test_results EXCEPT !.server_started = TRUE]
    /\ vpc' = "image"
    /\ UNCHANGED <<cpu_only, vreply, response, is_license_error, success,
                   vexc, vserver, nonVisionVars>>

\* Lines 175-177: the test image is not there.
VisImageMissing ==
    /\ vpc = "image"
    /\ test_results' = [test_results EXCEPT
                           !.errors = Append(@, "Test image not found")]
    /\ success' = FALSE
    /\ vpc' = "finally"
    /\ UNCHANGED <<cpu_only, vreply, response, is_license_error, vexc,
                   vserver, nonVisionVars>>

\* Line 175: the test image exists.
VisImageOk ==
    /\ vpc = "image"
    /\ vpc' = "request"
    /\ UNCHANGED <<cpu_only, vreply, response, is_license_error,
                   test_results, success, vexc, vserver, nonVisionVars>>

\* Line 180: the request is made and answered.
VisRequest ==
    /\ vpc = "request"
    /\ response' = TestVisionProcessing(vreply)[1]
    /\ is_license_error' = TestVisionProcessing(vreply)[2]
    /\ vpc' = "record"
    /\ UNCHANGED <<cpu_only, vreply, test_results, success, vexc,
                   vserver, nonVisionVars>>

\* Line 186: response and "text_blocks" in response if response else False.
HasTextBlocks(value) == Truthy(value) /\ value = "blocks"

\* Lines 182-187: the response is true but no dictionary: response.get
\* raises AttributeError.
VisRecordRaises ==
    /\ vpc = "record"
    /\ response = "text"
    /\ vexc' = "AttributeError"
    /\ vpc' = "finally"
    /\ UNCHANGED <<cpu_only, vreply, response, is_license_error,
                   test_results, success, vserver, nonVisionVars>>

\* Lines 182-189: the entry of the test is appended to vision_tests.
VisRecord ==
    /\ vpc = "record"
    /\ response # "text"
    /\ test_results' =
          [test_results EXCEPT !.vision_tests =
              Append(@, [response_received |-> response # "None",
                         license_error |-> is_license_error,
                         has_text_blocks |-> HasTextBlocks(response)])]
    /\ vpc' = "judge"
    /\ UNCHANGED <<cpu_only, vreply, response, is_license_error, success,
                   vexc, vserver, nonVisionVars>>

\* Lines 191-202: the license flag, the performance warning and the verdict.
VisJudge ==
    /\ vpc = "judge"
    /\ test_results' =
          [test_results EXCEPT
              !.license_validation = IF is_license_error THEN TRUE ELSE @,
              !.performance_warnings =
                  IF cpu_only /\ Truthy(response) THEN @ + 1 ELSE @]
    /\ success' = (/\ response # "None"
                   /\ (is_license_error \/ HasTextBlocks(response)))
    /\ vpc' = "finally"
    /\ UNCHANGED <<cpu_only, vreply, response, is_license_error, vexc,
                   vserver, nonVisionVars>>

\* Lines 204-208: the server is terminated and has exited within ten
\* seconds; the function returns, or the pending exception goes on.
VisCleanup ==
    /\ vpc = "finally"
    /\ vserver' = "exited"
    /\ vpc' = IF vexc = "none" THEN "returned" ELSE "raised"
    /\ UNCHANGED <<cpu_only, vreply, response, is_license_error,
                   test_results, success, vexc, nonVisionVars>>

\* Line 208: the server is still running after ten seconds: wait raises
\* TimeoutExpired, which replaces the return value; nothing kills the server.
VisCleanupTimeout ==
    /\ vpc = "finally"
    /\ vserver = "running"
    /\ vexc' = "TimeoutExpired"
    /\ vpc' = "raised"
    /\ UNCHANGED <<cpu_only, vreply, response, is_license_error,
                   test_results, success, vserver, nonVisionVars>>

\* ------------------------------------ execute_streaming_benchmarks: a suite

\* The status codes other than 200 the endpoint answers with.
ErrorCodes == {404, 500}

\* The exceptions of requests.post and of response.iter_lines, by name; all
\* are Exception subclasses.
PostExceptions == {"ReadTimeout", "ConnectionError"}

StreamExceptions == {"ChunkedEncodingError"}

\* The texts a stream that ends leaves in full_response.
BenchResponses == {"", "ab"}

\* Lines 97-114: the metrics of a response, of which the model keeps the
\* entries computed from the text and those generate_summary reads; the
\* test takes one unit of time, the first token arrives with its end, and a
\* text of fewer than three words has repetition score 0.
BenchMetrics(text) ==
    [word_count |-> IF text = "" THEN 0 ELSE 1,
     tokens_per_second |-> IF text = "" THEN 0 ELSE 1,
     first_token_latency |-> IF text = "" THEN 0 ELSE 1,
     repetition_score |-> 0,
     quality_score |-> IF text = "" THEN 1 ELSE 3,
     response_length |-> Len(text)]

\* Lines 116-131: the result of a test whose stream ended.
SuccessResult(i, text) ==
    [test_name |-> i, status |-> "success", prompt |-> i, response |-> text,
     metrics |-> BenchMetrics(text)]

\* Lines 65-71: the result of a test answered with another status than 200.
HttpErrorResult(i, code) ==
    [test_name |-> i, status |-> "error",
     error |-> "HTTP " \o ToString(code), prompt |-> i]

\* Lines 138-145: the result of a test ended by an exception.
ExceptionResult(i, e) ==
    [test_name |-> i, status |-> "timeout/error", error |-> e, prompt |-> i]

\* No suite (the state of the other specifications).
InitBenchIdle ==
    /\ bpc = "idle"
    /\ bidx = 0
    /\ bresults = <<>>
    /\ bsummary = "none"

\* Lines 15-18, 148-206: the runner is created and the suite is set up.
InitBench ==
    /\ bpc = "post"
    /\ bidx = 1
    /\ bresults = <<>>
    /\ bsummary = "none"

\* Lines 136, 140-145, 210-224: execute_streaming_test returns a result,
\* run_benchmark_suite appends it and goes on to the next test, after a
\* pause, or to the summary.
BenchReturn(result) ==
    /\ bresults' = Append(bresults, result)
    /\ IF bidx < MaxTests
       THEN bidx' = bidx + 1 /\ bpc' = "post"
       ELSE bpc' = "summary" /\ UNCHANGED bidx
    /\ UNCHANGED <<bsummary, nonBenchVars>>

\* Lines 51-63, 138-145: requests.post raises; the except clause returns a
\* timeout/error result.
BenchPostRaises(e) ==
    /\ bpc = "post"
    /\ BenchReturn(ExceptionResult(bidx, e))

\* Lines 65-71: the answer has another status than 200.
BenchPostStatus(code) ==
    /\ bpc = "post"
    /\ BenchReturn(HttpErrorResult(bidx, code))

\* Lines 52-74: the answer has status 200 and the stream is read.
BenchPostOk ==
    /\ bpc = "post"
    /\ bpc' = "stream"
    /\ UNCHANGED <<bidx, bresults, bsummary, nonBenchVars>>

\* Lines 76-94, 138-145: the iteration over the lines raises in the middle of
\* the stream; what was read is dropped and a timeout/error result is
\* returned.
BenchStreamRaises(e) ==
    /\ bpc = "stream"
    /\ BenchReturn(ExceptionResult(bidx, e))

\* Lines 76-136: the stream ends and the success result is returned.
BenchStreamEnds(text) ==
    /\ bpc = "stream"
    /\ BenchReturn(SuccessResult(bidx, text))

\* Lines 51-94, 138: a KeyboardInterrupt while the request is made or the
\* stream is read is no Exception: it passes the except clause and ends the
\* suite, as main() handles nothing.
BenchInterrupt ==
    /\ bpc \in {"post", "stream"}
    /\ bpc' = "interrupted"
    /\ UNCHANGED <<bidx, bresults, bsummary, nonBenchVars>>

\* A summary that averages over every result, failed tests included.
AllTests(rs) == rs

\* Line 239: [r for r in self.results if r["status"] == "success"].
SuccessfulTests(rs) ==
    LET Ok(r) == r.status = "success" IN SelectSeq(rs, Ok)

\* The entries of metrics the summary reads (lines 246-249, 263-264).
SummaryKeys ==
    {"tokens_per_second", "quality_score", "repetition_score",
     "first_token_latency"}

\* r["metrics"][k] succeeds for every key the summary reads.
HasMetrics(r) ==
    /\ "metrics" \in DOMAIN r
    /\ SummaryKeys \subseteq DOMAIN r.metrics

\* Lines 232-266: generate_summary over the results: nothing to average
\* without a successful test; else the averages over the successful tests
\* and a line for every result, with its metrics if it is a success and its
\* error otherwise.  A missing entry is a KeyError.
GenerateSummary(rs) ==
    IF \E i \in 1..Len(rs) : "status" \notin DOMAIN rs[i] THEN "KeyError"
    ELSE LET ok == SuccessfulTests(rs) IN
         IF ok = <<>> THEN "no_success"
         ELSE IF /\ \A i \in 1..Len(ok) : HasMetrics(ok[i])
                 /\ \A i \in 1..Len(rs) :
                        /\ "test_name" \in DOMAIN rs[i]
                        /\ rs[i].status = "success" => HasMetrics(rs[i])
              THEN "printed"
              ELSE "KeyError"

\* Line 227: the summary is generated after the last test.
BenchSummary ==
    /\ bpc = "summary"
    /\ bsummary' = GenerateSummary(bresults)
    /\ bpc' = IF bsummary' = "KeyError" THEN "raised" ELSE "done"
    /\ UNCHANGED <<bidx, bresults, nonBenchVars>>

\* ---------------------------------------------------------- wait_for_server

\* timeout: int = 30 (line 48), in seconds.
WaitTimeout == 30

\* urlopen(url, timeout=5) (line 55), in seconds.
ProbeTimeout == 5

\* time.sleep(1) (line 62), in seconds.
ProbeSleep == 1

\* How a health probe can end: the status 200, another 2xx status, an HTTP
\* error status (urllib.error.HTTPError), a refused connection
\* (urllib.error.URLError), no answer within the timeout (TimeoutError, an
\* OSError), or an answer that is no HTTP response, which http.client reports
\* as BadStatusLine, an HTTPException.
ProbeAnswers ==
    {"200", "other_2xx", "http_error", "refused", "timeout", "bad_status_line"}

\* The answers the except clause of line 59 catches: URLError and its
\* subclass HTTPError, and OSError.
CaughtAnswers == {"http_error", "refused", "timeout"}

\* The seconds a probe can take: a refused connection is immediate, a timeout
\* takes the whole timeout, an answer comes within it.
ProbeSeconds(a) ==
    IF a = "refused" THEN {0}
    ELSE IF a = "timeout" THEN {ProbeTimeout}
    ELSE 0..(ProbeTimeout - 1)

\* No wait (the state of the other specifications).
InitWaitIdle ==
    /\ wpc = "idle"
    /\ wclock = 0
    /\ wanswer = "none"
    /\ wret = "none"

\* Lines 50-51: the url is built and start_time is taken.
InitWait ==
    /\ wpc = "check"
    /\ wclock = 0
    /\ wanswer = "none"
    /\ wret = "none"

\* Lines 53, 64-65: the loop condition; once the timeout has elapsed the
\* function prints the failure and returns False.
WaitCheck ==
    /\ wpc = "check"
    /\ IF wclock < WaitTimeout
       THEN wpc' = "probe" /\ UNCHANGED wret
       ELSE wpc' = "returned" /\ wret' = "False"
    /\ UNCHANGED <<wclock, wanswer, nonWaitVars>>

\* Lines 54-60: one probe.  A 200 returns True; another status falls through
\* to the sleep; URLError and OSError are caught and passed; any other
\* exception leaves the function.
WaitProbe(a, d) ==
    /\ wpc = "probe"
    /\ wanswer' = a
    /\ wclock' = wclock + d
    /\ IF a = "200" THEN wpc' = "returned" /\ wret' = "True"
       ELSE IF a = "other_2xx" \/ a \in CaughtAnswers
            THEN wpc' = "sleep" /\ UNCHANGED wret
            ELSE wpc' = "raised" /\ UNCHANGED wret
    /\ UNCHANGED nonWaitVars

\* Line 62: time.sleep(1).
WaitSleep ==
    /\ wpc = "sleep"
    /\ wclock' = wclock + ProbeSleep
    /\ wpc' = "check"
    /\ UNCHANGED <<wanswer, wret, nonWaitVars>>

\* ----------------------------------------- generate_report: the table

\* MODELS: the display_name of each entry (lines 67, 76, 85).
DisplayName ==
    [n \in Range(MODELS) |->
        IF n = MODELS[1] THEN "GPT-OSS 20B MoE"
        ELSE IF n = MODELS[2] THEN "Phi-3.5-MoE 41.9B"
        ELSE "DeepSeek MoE 16B"]

\* The test_name of the three scenarios (lines 320, 373, 427).
TestNames == {"basic_generation", "long_form_generation", "concurrent_load"}

\* Line 585: test_name.replace('_', ' ').title().
TitleCase ==
    [t \in TestNames |->
        IF t = "basic_generation" THEN "Basic Generation"
        ELSE IF t = "long_form_generation" THEN "Long Form Generation"
        ELSE "Concurrent Load"]

\* The records a run collects.  The float fields are counted in a unit finer
\* than the report prints: tokens_per_second in thousandths,
\* peak_gpu_memory_mb in tenths of a MB, success_rate in ten-thousandths,
\* average_response_time_ms and total_time_seconds in tenths.
Records ==
    [model_name : Range(MODELS), test_name : TestNames,
     tokens_generated : {0, 1234},
     tokens_per_second : {0, 1230, 1234},
     peak_gpu_memory_mb : {0, 20480},
     success_rate : {0, 3333, 10000},
     average_response_time_ms : {0, 6204},
     total_time_seconds : {62, 124}]

NoRecord == [model_name |-> "none"]

\* No record is followed (the state of the other specifications).
InitArtifactIdle ==
    /\ apc = "idle"
    /\ arecord = NoRecord
    /\ cells = NoRecord
    /\ read_back = NoRecord

\* generate_report meets a record of self.results.
InitArtifact ==
    /\ apc = "write"
    /\ arecord \in Records
    /\ cells = NoRecord
    /\ read_back = NoRecord

\* The fixed-point formats of the f-strings (:.2f, :.0f, :.1%): x rounded to
\* the nearest multiple of step, counted in steps (a tie goes to the even
\* one).
RoundTo(x, step) ==
    LET q == x \div step
        r == x % step
    IN  IF 2 * r < step THEN q
        ELSE IF 2 * r > step THEN q + 1
        ELSE IF q % 2 = 0 THEN q ELSE q + 1

\* Lines 562-591: the section of the record's model and the row of the
\* record: the display name, the title-cased test name, the token count,
\* and tokens_per_second with two decimals, peak_gpu_memory_mb and
\* average_response_time_ms with none, success_rate as a percentage with one.
WriteRow ==
    /\ apc = "write"
    /\ cells' =
          [heading |-> DisplayName[arecord.model_name],
           test_name |-> TitleCase[arecord.test_name],
           tokens_generated |-> arecord.tokens_generated,
           tokens_per_second |-> RoundTo(arecord.tokens_per_second, 10),
           peak_gpu_memory_mb |-> RoundTo(arecord.peak_gpu_memory_mb, 10),
           success_rate |-> RoundTo(arecord.success_rate, 10),
           average_response_time_ms |->
               RoundTo(arecord.average_response_time_ms, 10)]
    /\ apc' = "written"
    /\ UNCHANGED <<arecord, read_back, nonArtifactVars>>

\* A reader of the report file: the names are mapped back, the numbers are
\* taken as printed (in the units of Records), and a field the file does
\* not hold is absent.
ReadRow ==
    /\ apc = "written"
    /\ read_back' =
          [model_name |->
               CHOOSE n \in Range(MODELS) : DisplayName[n] = cells.heading,
           test_name |->
               CHOOSE t \in TestNames : TitleCase[t] = cells.test_name,
           tokens_generated |-> cells.tokens_generated,
           tokens_per_second |-> cells.tokens_per_second * 10,
           peak_gpu_memory_mb |-> cells.peak_gpu_memory_mb * 10,
           success_rate |-> cells.success_rate * 10,
           average_response_time_ms |-> cells.average_response_time_ms * 10,
           total_time_seconds |-> -1]
    /\ apc' = "read"
    /\ UNCHANGED <<arecord, cells, nonArtifactVars>>

\* --------------------------------------------- vision_timing.py: main

\* How post_vision ends for an image: the file cannot be opened (line 27,
\* outside the try), the endpoint answers 200 with a JSON object (without
\* or with parse_warnings), with JSON that is no object, with an HTTP error
\* status, or the request raises (no connection, timeout, a body that is no
\* JSON).
ImageOutcomes ==
    {"unreadable", "object", "warned", "not_object", "http_error",
     "exception"}

RequestFailures == {"http_error", "exception"}

\* No timing run (the state of the other specifications).
InitTimingIdle ==
    /\ tmpc = "idle"
    /\ fail_fast = FALSE
    /\ outcomeOf = <<>>
    /\ imgIdx = 0
    /\ requested = <<>>
    /\ trows = <<>>
    /\ exit_status = -1

\* Lines 110-118: the arguments are parsed; rows is empty.
InitTiming ==
    /\ tmpc = "loop"
    /\ fail_fast \in BOOLEAN
    /\ outcomeOf \in SeqsUpTo(ImageOutcomes, MaxImages) \ {<<>>}
    /\ imgIdx = 0
    /\ requested = <<>>
    /\ trows = <<>>
    /\ exit_status = -1

\* Lines 144-153: the parse_warnings of a row.
ParseWarnings(outcome) ==
    IF outcome = "http_error" THEN "HTTP code: reason"
    ELSE IF outcome = "exception" THEN "EXCEPTION: text"
    ELSE IF outcome = "warned" THEN "warnings"
    ELSE "-"

\* Lines 119-122, 27: the file of the next image cannot be opened: the
\* exception leaves post_vision and main.
TimingOpenRaises ==
    /\ tmpc = "loop"
    /\ imgIdx < Len(outcomeOf)
    /\ outcomeOf[imgIdx + 1] = "unreadable"
    /\ imgIdx' = imgIdx + 1
    /\ exit_status' = 1
    /\ tmpc' = "exited"
    /\ UNCHANGED <<fail_fast, outcomeOf, requested, trows, nonTimingVars>>

\* Lines 119-144: the answer is JSON but no object: data.get at line 144
\* raises AttributeError, which leaves main.
TimingNotObject ==
    /\ tmpc = "loop"
    /\ imgIdx < Len(outcomeOf)
    /\ outcomeOf[imgIdx + 1] = "not_object"
    /\ imgIdx' = imgIdx + 1
    /\ requested' = Append(requested, imgIdx + 1)
    /\ exit_status' = 1
    /\ tmpc' = "exited"
    /\ UNCHANGED <<fail_fast, outcomeOf, trows, nonTimingVars>>

\* Lines 119-162: the request of the next image is sent and post_vision
\* returns; the row of the image is appended, unless the request failed and
\* --fail-fast is set: SystemExit(2).
TimingRow ==
    /\ tmpc = "loop"
    /\ imgIdx < Len(outcomeOf)
    /\ outcomeOf[imgIdx + 1] \in {"object", "warned"} \cup RequestFailures
    /\ imgIdx' = imgIdx + 1
    /\ requested' = Append(requested, imgIdx + 1)
    /\ IF outcomeOf[imgIdx + 1] \in RequestFailures /\ fail_fast
       THEN /\ exit_status' = 2
            /\ tmpc' = "exited"
            /\ UNCHANGED trows
       ELSE /\ trows' = Append(trows,
                               [image |-> imgIdx + 1,
                                parse_warnings |->
                                    ParseWarnings(outcomeOf[imgIdx + 1])])
            /\ UNCHANGED <<tmpc, exit_status>>
    /\ UNCHANGED <<fail_fast, outcomeOf, nonTimingVars>>

\* Lines 170-176: the images are through: the rows are printed; return 0.
TimingPrint ==
    /\ tmpc = "loop"
    /\ imgIdx = Len(outcomeOf)
    /\ exit_status' = 0
    /\ tmpc' = "exited"
    /\ UNCHANGED <<fail_fast, outcomeOf, imgIdx, requested, trows,
                   nonTimingVars>>

\* ------------------------------------------------------- the specification

Init ==
    /\ InitArgs /\ InitServer
    /\ InitMonitor /\ InitClientIdle /\ InitScenarioIdle /\ InitOrderIdle
    /\ InitReportIdle
    /\ InitStreamIdle
    /\ InitVisionIdle
    /\ InitArtifactIdle
    /\ InitTimingIdle
    /\ InitFilesIdle
    /\ InitWaitIdle
    /\ InitBenchIdle

Next ==
    \/ MainLoop
    \/ StartStopPrevious
    \/ StartSpawn
    \/ StartSpawnFails
    \/ StartSleep
    \/ StartHealth
    \/ StartResult
    \/ StartInterrupt
    \/ RunAllCheck
    \/ ScenarioCompletes
    \/ \E e \in {"Exception", "KeyboardInterrupt"} : ScenarioRaises(e)
    \/ RunAllFinally
    \/ MainSleep
    \/ MainSleepInterrupt
    \/ ReportBegin
    \/ ReportChart
    \/ MainReport
    \/ MainReportRaises
    \/ MainFinally
    \/ StopCheck
    \/ StopNothing
    \/ StopTerminate
    \/ StopWaitExited
    \/ StopWaitTimeout
    \/ StopWaitInterrupt
    \/ StopKill
    \/ StopFinally
    \/ \E p \in Pids : ServerBecomesReady(p)
    \/ \E p \in Pids : ServerExits(p)

Spec == Init /\ [][Next]_vars

\* The GPUMonitor alone, driven through its windows by one calling thread.
InitMonitorOnly ==
    /\ InitArgsDefault /\ InitServer /\ nModels = 0
    /\ InitMonitor /\ InitClientIdle /\ InitScenarioIdle /\ InitOrderIdle
    /\ InitReportIdle
    /\ InitStreamIdle
    /\ InitVisionIdle
    /\ InitArtifactIdle
    /\ InitTimingIdle
    /\ InitFilesIdle
    /\ InitWaitIdle
    /\ InitBenchIdle

NextMonitor ==
    \/ MonStartFlag
    \/ MonStartReset
    \/ MonStartThread
    \/ MonStopSignal
    \/ MonJoinExited
    \/ MonJoinExpires
    \/ MonStopReturn
    \/ \E t \in Tids : LoopCheck(t)
    \/ \E t \in Tids : \E v \in 0..MaxMem : LoopSample(t, v)
    \/ \E t \in Tids : LoopSampleFails(t)
    \/ \E t \in Tids : LoopSampleRaises(t)
    \/ \E t \in Tids : LoopWarn(t)
    \/ \E t \in Tids : LoopFoldRead(t)
    \/ \E t \in Tids : LoopFoldWrite(t)
    \/ \E t \in Tids : LoopSleep(t)

SpecMonitor == InitMonitorOnly /\ [][NextMonitor]_vars

\* The GPUMonitor when every join ends with the exit of the thread joined.
NextMonitorJoined ==
    \/ MonStartFlag
    \/ MonStartReset
    \/ MonStartThread
    \/ MonStopSignal
    \/ MonJoinExited
    \/ MonStopReturn
    \/ \E t \in Tids : LoopCheck(t)
    \/ \E t \in Tids : \E v \in 0..MaxMem : LoopSample(t, v)
    \/ \E t \in Tids : LoopSampleFails(t)
    \/ \E t \in Tids : LoopSampleRaises(t)
    \/ \E t \in Tids : LoopWarn(t)
    \/ \E t \in Tids : LoopFoldRead(t)
    \/ \E t \in Tids : LoopFoldWrite(t)
    \/ \E t \in Tids : LoopSleep(t)

SpecMonitorJoined == InitMonitorOnly /\ [][NextMonitorJoined]_vars

\* One generate call of the ShimmyClient, for every reply in Replies.
InitClientOnly ==
    /\ InitArgsDefault /\ InitServer /\ nModels = 0
    /\ InitMonitor /\ InitClient /\ InitScenarioIdle /\ InitOrderIdle
    /\ InitReportIdle
    /\ InitStreamIdle
    /\ InitVisionIdle
    /\ InitArtifactIdle
    /\ InitTimingIdle
    /\ InitFilesIdle
    /\ InitWaitIdle
    /\ InitBenchIdle

NextClient ==
    \/ GenPostRaises
    \/ GenPostAnswers
    \/ GenStatusError
    \/ GenJson
    \/ GenJsonRaises
    \/ \E rt \in ResponseTimes : GenReturn(rt)
    \/ GenBuildRaises
    \/ \E rt \in ResponseTimes : GenExcept(rt)

SpecClient == InitClientOnly /\ [][NextClient]_vars

\* The three scenarios of one model, in the order run_all_tests_for_model
\* awaits them, for every way each request may end.
InitScenarioOnly ==
    /\ InitArgsDefault /\ InitServer /\ nModels = 0
    /\ InitMonitor /\ InitClientIdle /\ InitScenario /\ InitOrderIdle
    /\ InitReportIdle
    /\ InitStreamIdle
    /\ InitVisionIdle
    /\ InitArtifactIdle
    /\ InitTimingIdle
    /\ InitFilesIdle
    /\ InitWaitIdle
    /\ InitBenchIdle

NextScenario ==
    \/ ScenBegin
    \/ ScenStartTime
    \/ ScenStartMonitoring
    \/ ScenEnter
    \/ SeqIssue
    \/ \E o \in ResultTypes : SeqComplete(o)
    \/ SeqInterrupt
    \/ SeqLoopEnd
    \/ ConcCreate
    \/ ConcGather
    \/ \E o \in GatherTypes : ConcComplete(o)
    \/ ConcGathered
    \/ ConcInterrupt
    \/ AExit
    \/ ConcProcess
    \/ ConcProcessEnd
    \/ ScenStopMonitoring
    \/ ScenEndTime
    \/ ScenMetrics

SpecScenario == InitScenarioOnly /\ [][NextScenario]_vars

\* The order of one run of main(), for every --models list in ModelArgs.
InitOrderOnly ==
    /\ InitArgsDefault /\ InitServer /\ nModels = 0
    /\ InitMonitor /\ InitClientIdle /\ InitScenarioIdle /\ InitOrder
    /\ InitReportIdle
    /\ InitStreamIdle
    /\ InitVisionIdle
    /\ InitArtifactIdle
    /\ InitTimingIdle
    /\ InitFilesIdle
    /\ InitWaitIdle
    /\ InitBenchIdle

NextOrder ==
    \/ OrdSelect
    \/ OrdNextModel
    \/ OrdStartFails
    \/ OrdStartOk
    \/ OrdScenario
    \/ OrdAbort
    \/ OrdReport

SpecOrder == InitOrderOnly /\ [][NextOrder]_vars

\* generate_report on every collection of up to MaxRows records, and again
\* on its reorderings.
InitReportOnly ==
    /\ InitArgsDefault /\ InitServer /\ nModels = 0
    /\ InitMonitor /\ InitClientIdle /\ InitScenarioIdle /\ InitOrderIdle
    /\ InitReport
    /\ InitStreamIdle
    /\ InitVisionIdle
    /\ InitArtifactIdle
    /\ InitTimingIdle
    /\ InitFilesIdle
    /\ InitWaitIdle
    /\ InitBenchIdle

NextReport ==
    \/ ReportNothing
    \/ ReportAggregates
    \/ \E i, j \in 1..MaxRows : Reorder(i, j)

SpecReport == InitReportOnly /\ [][NextReport]_vars

\* The loop of execute_streaming_test over every body of up to MaxLines
\* lines.
InitStreamOnly ==
    /\ InitArgsDefault /\ InitServer /\ nModels = 0
    /\ InitMonitor /\ InitClientIdle /\ InitScenarioIdle /\ InitOrderIdle
    /\ InitReportIdle
    /\ InitStream
    /\ InitVisionIdle
    /\ InitArtifactIdle
    /\ InitTimingIdle
    /\ InitFilesIdle
    /\ InitWaitIdle
    /\ InitBenchIdle

NextStream ==
    \/ StreamOther
    \/ StreamDone
    \/ StreamBlank
    \/ StreamToken
    \/ StreamExhausted

SpecStream == InitStreamOnly /\ [][NextStream]_vars

\* One call of run_cross_validation_test, for every answer of the vision
\* endpoint.
InitVisionOnly ==
    /\ InitArgsDefault /\ InitServer /\ nModels = 0
    /\ InitMonitor /\ InitClientIdle /\ InitScenarioIdle /\ InitOrderIdle
    /\ InitReportIdle
    /\ InitStreamIdle
    /\ InitVision
    /\ InitArtifactIdle
    /\ InitTimingIdle
    /\ InitFilesIdle
    /\ InitWaitIdle
    /\ InitBenchIdle

NextVision ==
    \/ VisWaitFails
    \/ VisWaitOk
    \/ VisImageMissing
    \/ VisImageOk
    \/ VisRequest
    \/ VisRecordRaises
    \/ VisRecord
    \/ VisJudge
    \/ VisCleanup
    \/ VisCleanupTimeout
    \/ VisServerExits

SpecVision == InitVisionOnly /\ [][NextVision]_vars

\* One record, written to the report and read back.
InitArtifactOnly ==
    /\ InitArgsDefault /\ InitServer /\ nModels = 0
    /\ InitMonitor /\ InitClientIdle /\ InitScenarioIdle /\ InitOrderIdle
    /\ InitReportIdle
    /\ InitStreamIdle
    /\ InitVisionIdle
    /\ InitArtifact
    /\ InitTimingIdle
    /\ InitFilesIdle
    /\ InitWaitIdle
    /\ InitBenchIdle

NextArtifact ==
    \/ WriteRow
    \/ ReadRow

SpecArtifact == InitArtifactOnly /\ [][NextArtifact]_vars

\* One run of the vision timing runner, for every course of its requests.
InitTimingOnly ==
    /\ InitArgsDefault /\ InitServer /\ nModels = 0
    /\ InitMonitor /\ InitClientIdle /\ InitScenarioIdle /\ InitOrderIdle
    /\ InitReportIdle
    /\ InitStreamIdle
    /\ InitVisionIdle
    /\ InitArtifactIdle
    /\ InitTiming
    /\ InitFilesIdle
    /\ InitWaitIdle
    /\ InitBenchIdle

NextTiming ==
    \/ TimingOpenRaises
    \/ TimingNotObject
    \/ TimingRow
    \/ TimingPrint

SpecTiming == InitTimingOnly /\ [][NextTiming]_vars

\* One call of wait_for_server, for every course of its probes.
InitWaitOnly ==
    /\ InitArgsDefault /\ InitServer /\ nModels = 0
    /\ InitMonitor /\ InitClientIdle /\ InitScenarioIdle /\ InitOrderIdle
    /\ InitReportIdle
    /\ InitStreamIdle
    /\ InitVisionIdle
    /\ InitArtifactIdle
    /\ InitTimingIdle
    /\ InitFilesIdle
    /\ InitWait
    /\ InitBenchIdle

NextWait ==
    \/ WaitCheck
    \/ \E a \in ProbeAnswers : \E d \in ProbeSeconds(a) : WaitProbe(a, d)
    \/ WaitSleep

SpecWait == InitWaitOnly /\ [][NextWait]_vars

\* One run of the streaming benchmark suite, for every course of its tests.
InitBenchOnly ==
    /\ InitArgsDefault /\ InitServer /\ nModels = 0
    /\ InitMonitor /\ InitClientIdle /\ InitScenarioIdle /\ InitOrderIdle
    /\ InitReportIdle
    /\ InitStreamIdle
    /\ InitVisionIdle
    /\ InitArtifactIdle
    /\ InitTimingIdle
    /\ InitFilesIdle
    /\ InitWaitIdle
    /\ InitBench

NextBench ==
    \/ \E e \in PostExceptions : BenchPostRaises(e)
    \/ \E code \in ErrorCodes : BenchPostStatus(code)
    \/ BenchPostOk
    \/ \E e \in StreamExceptions : BenchStreamRaises(e)
    \/ \E text \in BenchResponses : BenchStreamEnds(text)
    \/ BenchInterrupt
    \/ BenchSummary

SpecBench == InitBenchOnly /\ [][NextBench]_vars

\* The same call with every step taken in the end: the function is not
\* suspended for ever.
SpecWaitFair == SpecWait /\ WF_vars(NextWait)

\* ------------------------------------------------------------- the claims

StopPcs == {"stop_check", "stop_terminate", "stop_wait", "stop_kill",
            "stop_finally"}

\* C1: on every exit path of main() (all models processed, an exception from
\* a scenario, a KeyboardInterrupt during the model loop) the server is
\* stopped: when main() ends, server_process is None and no spawned process is
\* still running.  (A run whose final stop, line 661, was itself interrupted
\* is left out: the claim is about interrupts during the model loop.)
C1_ServerStoppedAtExit ==
    (pc = "done" /\ pending # "KeyboardInterrupt")
        => (server_process = 0 /\ AliveSet = {})

\* C2: in every reachable state at most one spawned server process is alive.
C2_AtMostOneServerAlive == Cardinality(AliveSet) <= 1

\* The second model's server runs after the first model's start failed (no
\* result was recorded for it) and its process was stopped by a SIGTERM.
C2_Witness ==
    /\ modelIdx = 2
    /\ results = <<>>
    /\ proc[1] = "exited"
    /\ "TERM" \in {sigs[1][i] : i \in 1..Len(sigs[1])}
    /\ Alive(2)

\* C3: whenever start_shimmy_server returns False after it has spawned a
\* process, that process has been terminated and no handle to it is owned.
C3_FailedStartLeavesNoProcess ==
    (pc = "runall_check" /\ startRet = "False" /\ spawnedPid # 0)
        => (~Alive(spawnedPid) /\ server_process = 0)

\* C4: start_shimmy_server returns True only if the health endpoint answered
\* 200 after the spawn; for every other outcome it returns False.
C4_TrueOnlyOnHealth200 ==
    /\ startRet = "True" => (health = "200" /\ spawnedPid # 0)
    /\ pc = "runall_check" => startRet \in {"True", "False"}
    /\ (pc = "runall_check" /\ health # "200") => startRet = "False"

C4_Witness ==
    /\ pc = "runall_check"
    /\ startRet = "True"
    /\ health = "200"
    /\ spawnedPid # 0

\* C5: start_shimmy_server never raises for a failure inside it: a spawn
\* failure, a failed health request and an error status all end in the return
\* value False with an error record; only a KeyboardInterrupt leaves it as an
\* exception.
C5_FailuresBecomeFalse ==
    /\ startRet = "raised" => exitPath = "interrupt"
    /\ exitPath = "exception" => startRet # "raised"
    /\ startRet = "False" =>
          startLog \in {"error_health_check", "error_failed_to_start"}
    /\ (pc = "runall_check" /\ health \in {"non200", "exception"})
          => (startRet = "False" /\ pending = "none")
    /\ (pc = "runall_check" /\ spawnedPid = 0)
          => (startRet = "False" /\ pending = "none")

\* start has returned False for a spawn failure, with its error record.
C5_Witness ==
    /\ pc = "runall_check"
    /\ spawnedPid = 0
    /\ startRet = "False"
    /\ startLog = "error_failed_to_start"

\* C6: stop_shimmy_server is idempotent: a call that follows another stop
\* call (no spawn between them) finds the handle None, so it sends no signal
\* and raises nothing, and after each call server_process is None.
C6_StopIdempotent ==
    /\ (pc \in StopPcs /\ stopsInRow >= 1)
          => (pc = "stop_check" /\ server_process = 0 /\ ~stopExc)
    /\ (pc \notin StopPcs /\ stopsInRow >= 1) => server_process = 0

\* Two stop calls in a row have ended, the first of them on a spawned server.
C6_Witness ==
    /\ stopsInRow = 2
    /\ pc \notin StopPcs
    /\ proc[1] # "none"
    /\ sigs[1] # <<>>

\* C7: stop_shimmy_server escalates in the order terminate, bounded wait,
\* kill: SIGKILL is sent only to the owned process, after SIGTERM, once the
\* wait has timed out with the process still running; and the handle is
\* cleared whenever the try block is left (exit, kill or failure).
C7_EscalationOrder ==
    [][/\ \A p \in Pids :
            (sigs'[p] # sigs[p] /\ sigs'[p][Len(sigs'[p])] = "KILL")
                => /\ pc = "stop_kill"
                   /\ p = server_process
                   /\ sigs[p] = <<"TERM">>
                   /\ Alive(p)
       /\ (pc' = "stop_kill" /\ pc # "stop_kill")
            => /\ pc = "stop_wait"
               /\ Alive(server_process)
               /\ sigs[server_process] = <<"TERM">>
       /\ (pc = "stop_finally" /\ pc' # "stop_finally") => server_process' = 0
      ]_vars

\* The first server was killed after its SIGTERM; the stop of the second was
\* interrupted in its wait, the process running on; no handle is owned.
C7_Witness ==
    /\ sigs[1] = <<"TERM", "KILL">>
    /\ proc[1] = "exited"
    /\ sigs[2] = <<"TERM">>
    /\ Alive(2)
    /\ pc \notin StopPcs
    /\ server_process = 0

C9_ReturnedPeakCoversSamples ==
    mpc = "returned" =>
        /\ returned >= windowMax
        /\ windowMax = -1 => returned = 0

\* C10: when stop_monitoring returns, the sampling loop has fully exited: no
\* thread is left that can take a sample or write peak_memory.
C10_LoopExitedOnReturn ==
    mpc = "returned" => \A t \in Tids : tpc[t] \in {"none", "done"}

\* C11: a failed sample (a non-zero return code, or a query that raises, times
\* out or prints no number) leaves peak_memory as it was and does not end the
\* loop: the thread goes on to its sleep and the next test of the flag, and it
\* leaves the loop only at that test, with monitoring switched off.
C11_FailedSampleKeepsLoop ==
    [][\A t \in Tids :
          /\ (tpc[t] = "sample" /\ tpc'[t] # "sample" /\ tpc'[t] # "fold_read")
                => (tpc'[t] \in {"warn", "sleep"} /\ peak_memory' = peak_memory)
          /\ (tpc[t] = "warn" /\ tpc'[t] # "warn")
                => (tpc'[t] = "sleep" /\ peak_memory' = peak_memory)
          /\ (tpc[t] # "done" /\ tpc'[t] = "done")
                => (tpc[t] = "check" /\ ~monitoring)]_vars

\* A sample has just failed by an exception while a peak was recorded and the
\* window is still open: the peak is kept and the thread is still in the loop.
C11_Witness ==
    \E t \in Tids : tpc[t] = "warn" /\ monitoring /\ peak_memory > 0
                     /\ thread = t

\* The reply is one of the request failures: a transport failure, a status
\* other than 200, or a body that cannot be used.
RequestFailed ==
    \/ reply.kind \in {"transport", "http", "badjson"}
    \/ reply.kind = "json" /\ reply.body \in {"null", "list"}

\* C12: generate returns a result for every reply; for a failed request
\* (non-200 status, transport failure, malformed body) the result has
\* success False, tokens 0, an empty response and a non-empty error detail,
\* and a success has success True and error None.
C12_FailureResultShape ==
    cpc = "done" =>
        /\ RequestFailed =>
              /\ ~gresult.success
              /\ gresult.tokens = 0
              /\ gresult.response = NoText
              /\ ~gresult.error.none
              /\ gresult.error.str # ""
        /\ ~RequestFailed => (gresult.success /\ gresult.error = None)

\* The number of whitespace-separated words of a text: the places where a
\* word starts.
WordCount(s) ==
    Cardinality({i \in 1..Len(s) :
                    /\ s[i] \notin Whitespace
                    /\ (i = 1 \/ s[i - 1] \in Whitespace)})

\* C13: the tokens of every successful result are the number of
\* whitespace-separated words of its response text; an empty or missing
\* response field gives an empty text and 0 tokens.
C13_TokensAreWordCount ==
    (cpc = "done" /\ gresult.success) =>
        /\ gresult.tokens = WordCount(gresult.response)
        /\ gresult.response = (IF reply.body = "text" THEN reply.text
                                                     ELSE NoText)
        /\ gresult.response = NoText => gresult.tokens = 0

\* A success whose text starts and ends with whitespace around one word.
C13_Witness ==
    /\ cpc = "done"
    /\ gresult.success
    /\ gresult.response = <<" ", "a", "\n">>
    /\ gresult.tokens = 1

\* A scenario has returned its TestMetrics, and the next has not reset it.
RecordMade == metrics.test # 0

\* The successes among the ways the requests ended, with their tokens, the
\* sum of their times and their largest time.
OkCount(bag) == bag["full"] + bag["empty"]

BagTokens(bag) == bag["full"] * Tokens("full") + bag["empty"] * Tokens("empty")

BagTimeSum(bag) == bag["full"] * Time("full") + bag["empty"] * Time("empty")

BagTimeMax(bag) ==
    LET S == {Time(o) : o \in {t \in OkTypes : bag[t] > 0}}
    IN  IF S = {} THEN 0 ELSE CHOOSE m \in S : \A x \in S : x <= m

\* C14: the session is open before the first request and while any request
\* is in flight (the 25 gathered requests included), and it is closed once
\* the with block is left, by its end or by an exception.
C14_SessionCoversRequests ==
    /\ inflight > 0 => session = "open"
    /\ spc \in {"loop", "await", "create", "gather", "gathering", "aexit"}
          => session = "open"
    /\ spc \in {"process", "stop_monitoring", "end_time", "metrics", "raised",
               "finished"}
          => session = "closed"
    /\ (spc = "begin" /\ nRecords > 0) => session = "closed"

\* The await of the 25 gathered requests was interrupted and the exception
\* has left the with block: the session is closed.
C14_Witness ==
    /\ spc = "raised"
    /\ sraised = "interrupt"
    /\ sIdx = 3
    /\ nreq = 25
    /\ inflight = 0
    /\ session = "closed"

\* C15: in the basic and the long-form scenario tokens_generated is the sum
\* of the tokens of the successful requests, total_time_seconds the sum of
\* their response times, and success_rate the successes divided by the
\* attempts, 10 in the basic scenario and 3 in the long-form one.
C15_SequentialSums ==
    metrics.test \in {1, 2} =>
        /\ nreq = (IF metrics.test = 1 THEN 10 ELSE 3)
        /\ Count(outcomes) = nreq
        /\ metrics.tokens_generated = BagTokens(outcomes)
        /\ metrics.total_time_seconds = BagTimeSum(outcomes)
        /\ metrics.success_rate.d > 0
        /\ metrics.success_rate.n * nreq
              = OkCount(outcomes) * metrics.success_rate.d

\* The basic scenario with 7 successes of 10: success_rate is 0.7.
C15_Witness ==
    /\ metrics.test = 1
    /\ OkCount(outcomes) = 7
    /\ outcomes["error"] = 3
    /\ metrics.success_rate.n * 10 = 7 * metrics.success_rate.d

\* C16: in the concurrent scenario total_time_seconds is the largest
\* response time of the successful requests, not their sum, and
\* tokens_per_second is the sum of their tokens divided by that maximum.
C16_ConcurrentMax ==
    metrics.test = 3 =>
        /\ metrics.total_time_seconds = BagTimeMax(outcomes)
        /\ metrics.tokens_generated = BagTokens(outcomes)
        /\ BagTimeMax(outcomes) > 0 =>
              /\ metrics.tokens_per_second.d > 0
              /\ metrics.tokens_per_second.n * BagTimeMax(outcomes)
                    = BagTokens(outcomes) * 10 * metrics.tokens_per_second.d

\* 20 of the 25 requests succeed with 4200 tokens and a largest time of
\* 12.4 s: tokens_per_second is 338.7 to one decimal.
C16_Witness ==
    /\ metrics.test = 3
    /\ OkCount(outcomes) = 20
    /\ metrics.tokens_generated = 4200
    /\ metrics.total_time_seconds = 124
    /\ 3387 * metrics.tokens_per_second.d <= 10 * metrics.tokens_per_second.n
    /\ 10 * metrics.tokens_per_second.n < 3388 * metrics.tokens_per_second.d

\* C17: in the concurrent scenario a request that fails, by an error result
\* or by an exception, ends no other request: while gather runs every
\* request is in flight or has its one outcome, gather returns with one
\* outcome for each of the 25, and success_rate is the successes over 25.
C17_FailuresIsolated ==
    /\ spc = "gathering" => inflight + Count(outcomes) = nreq
    /\ (sIdx = 3 /\ spc \in {"process", "stop_monitoring", "end_time",
                              "metrics"}) =>
          (Count(outcomes) = nreq /\ nreq = 25)
    /\ metrics.test = 3 =>
          /\ Count(outcomes) = 25
          /\ metrics.success_rate.d > 0
          /\ metrics.success_rate.n * 25
                = OkCount(outcomes) * metrics.success_rate.d

\* Some of the 25 requests failed, in both ways, and the others succeeded.
C17_Witness ==
    /\ metrics.test = 3
    /\ outcomes["error"] > 0
    /\ outcomes["raised"] > 0
    /\ OkCount(outcomes) = 25 - outcomes["error"] - outcomes["raised"]
    /\ OkCount(outcomes) > 0
    /\ metrics.success_rate.n > 0

\* C18, as stated: tokens_per_second is never negative, is 0 exactly when
\* total_time_seconds is 0, and no division by zero happens.
C18_ZeroRateOnlyAtZeroTime ==
    /\ sraised # "ZeroDivisionError"
    /\ RecordMade =>
          /\ metrics.tokens_per_second.d > 0
          /\ metrics.tokens_per_second.n >= 0
          /\ metrics.tokens_per_second.n = 0
                <=> metrics.total_time_seconds = 0

\* C18, amended: tokens_per_second is never negative, is 0 when
\* total_time_seconds is 0, and is 0 exactly when total_time_seconds or
\* tokens_generated is 0; no division by zero happens.
C18_RateZeroCases ==
    /\ sraised # "ZeroDivisionError"
    /\ RecordMade =>
          /\ metrics.tokens_per_second.d > 0
          /\ metrics.tokens_per_second.n >= 0
          /\ metrics.total_time_seconds = 0
                => metrics.tokens_per_second.n = 0
          /\ metrics.tokens_per_second.n = 0
                <=> (metrics.total_time_seconds = 0
                     \/ metrics.tokens_generated = 0)

\* Every success of the scenario had an empty response: time has passed and
\* tokens_per_second is 0.
C18_Witness ==
    /\ RecordMade
    /\ metrics.total_time_seconds > 0
    /\ metrics.tokens_generated = 0
    /\ metrics.tokens_per_second.n = 0

\* C19: the success_rate of every record is between 0 and 1.
C19_SuccessRateInUnitInterval ==
    RecordMade =>
        /\ metrics.success_rate.d > 0
        /\ 0 <= metrics.success_rate.n
        /\ metrics.success_rate.n <= metrics.success_rate.d

\* Every request of the basic scenario succeeded: success_rate is 1.
C19_Witness ==
    /\ metrics.test = 1
    /\ OkCount(outcomes) = nreq
    /\ metrics.success_rate.n = metrics.success_rate.d

\* C20: a scenario all of whose requests fail still returns its record,
\* with tokens_generated, total_time_seconds, tokens_per_second,
\* average_response_time_ms and success_rate all 0, and the scenario after
\* it is run.
C20_AllFailYieldsZeroRecord ==
    /\ sraised # "ZeroDivisionError"
    /\ (RecordMade /\ OkCount(outcomes) = 0) =>
          /\ metrics.tokens_generated = 0
          /\ metrics.total_time_seconds = 0
          /\ metrics.tokens_per_second.n = 0
          /\ metrics.average_response_time_ms.n = 0
          /\ metrics.success_rate.n = 0
          /\ metrics.tokens_per_second.d > 0
          /\ metrics.average_response_time_ms.d > 0
          /\ metrics.success_rate.d > 0
          /\ metrics.test < NumScenarios =>
                (spc = "begin" /\ sIdx = metrics.test + 1)

\* All 10 requests of the basic scenario failed; its record is made and the
\* long-form scenario is about to be entered.
C20_Witness ==
    /\ metrics.test = 1
    /\ outcomes["error"] = 10
    /\ nRecords = 1
    /\ spc = "begin"
    /\ sIdx = 2

\* C21, as stated: a scenario that returns its record has gone through start
\* monitoring, start time, prompts, stop monitoring, end time and record in
\* this order, and every request is in flight inside the monitoring window.
C21_ProtocolMonitoringFirst ==
    /\ inflight > 0 => monitored
    /\ RecordMade =>
          protocol = <<"start_monitoring", "start_time", "prompts",
                       "stop_monitoring", "end_time", "record">>

\* The order of the outer protocol in the code.
ProtocolOrder == <<"start_time", "start_monitoring", "prompts",
                   "stop_monitoring", "end_time", "record">>

\* C21, amended: the start time is recorded first and monitoring started
\* next; then the prompts are issued, monitoring is stopped, the end time is
\* recorded and the record is built.  At every moment the steps taken are an
\* initial part of that order, every request is in flight inside the
\* monitoring window, and monitoring is stopped with no request in flight
\* and all of the scenario's requests made.
C21_ProtocolOrder ==
    /\ inflight > 0 => monitored
    /\ Len(protocol) <= Len(ProtocolOrder)
    /\ protocol = SubSeq(ProtocolOrder, 1, Len(protocol))
    /\ RecordMade => protocol = ProtocolOrder
    /\ spc \in {"end_time", "metrics"} =>
          (~monitored /\ inflight = 0 /\ nreq = Attempts(sIdx)
           /\ Count(outcomes) = nreq)

\* The concurrent scenario has returned its record after the whole protocol.
C21_Witness ==
    /\ metrics.test = 3
    /\ protocol = ProtocolOrder
    /\ Count(outcomes) = 25
    /\ ~monitored

\* C22: a model whose server failed to start runs no scenario and gets no
\* record: its run returns at once, without the finally clause, and main goes
\* on to the pause and the next model.
C22_FailedStartSkipsModel ==
    startRet = "False" =>
        /\ pc \notin {"scenario", "runall_finally"}
        /\ stopRet # "runall"
        /\ \A i \in 1..Len(results) : results[i][1] # modelIdx
        /\ pc = "main_sleep" => pending = "none"

\* The first model's server failed to start, and the second model has run
\* its scenarios: the first record is the second model's.
C22_Witness ==
    /\ modelIdx = 2
    /\ Len(results) = NumScenarios
    /\ results[1][1] = 2

\* C23: an exception raised by a scenario is not fatal to the suite: when
\* main() ends, by completion or after an exception, every selected model
\* has been processed; only an interrupt leaves models out.
C23_ExceptionLeavesNoModelOut ==
    (pc = "done" /\ exitPath # "interrupt") => modelIdx = nModels

\* C24: the scenarios run for a model are the requested ones: no scenario
\* outside the --tests selection is run or recorded, and a model whose run
\* has ended normally has exactly one record for each requested scenario.
C24_OnlyRequestedScenarios ==
    /\ pc = "scenario" => scenIdx \in argsTests
    /\ \A i \in 1..Len(results) : results[i][2] \in argsTests
    /\ (pc = "main_sleep" /\ startRet = "True") =>
          \A t \in argsTests :
              Cardinality({i \in 1..Len(results) :
                              results[i] = <<modelIdx, t>>}) = 1

\* The place of a model name in the registry.
RegPos(name) == CHOOSE i \in 1..Len(MODELS) : MODELS[i] = name

\* C25: the models are processed in the order of the registry whatever the
\* order --models names them in, each at most once, and the scenarios of a
\* model run in the order basic, long-form, concurrent: the records are in
\* increasing (registry position, scenario) order.
C25_RegistryOrder ==
    /\ opc # "select" =>
          /\ Range(models_to_test)
                = (IF argsModels = <<>> THEN Range(MODELS)
                                        ELSE Range(argsModels))
          /\ \A i, j \in 1..Len(models_to_test) :
                i < j => RegPos(models_to_test[i]) < RegPos(models_to_test[j])
    /\ \A i, j \in 1..Len(order) :
          i < j =>
              \/ RegPos(order[i][1]) < RegPos(order[j][1])
              \/ order[i][1] = order[j][1] /\ order[i][2] < order[j][2]

\* --models names the third model before the first; the first model's three
\* records come first, then the third model's.
C25_Witness ==
    /\ argsModels = <<"deepseek-moe-16b-f16", "gpt-oss-20b-f16">>
    /\ order = <<<<"gpt-oss-20b-f16", 1>>, <<"gpt-oss-20b-f16", 2>>,
                 <<"gpt-oss-20b-f16", 3>>, <<"deepseek-moe-16b-f16", 1>>,
                 <<"deepseek-moe-16b-f16", 2>>, <<"deepseek-moe-16b-f16", 3>>>>

\* The interrupt has been taken: no later model is scheduled, no server is
\* spawned and no scenario is run from then on.
InterruptHalts ==
    (exitPath = "interrupt" \/ pending = "KeyboardInterrupt") =>
        pc \in {"runall_finally", "main_finally", "done"} \cup StopPcs

\* C26: an interrupt during the loop of main() stops the scheduling of
\* further models, and the scenario in flight at the interrupt still
\* finishes, so that its record is there, before the server is stopped.
C26_InterruptLetsScenarioFinish ==
    /\ InterruptHalts
    /\ (pc = "runall_finally" /\ pending = "KeyboardInterrupt") =>
          \E i \in 1..Len(results) : results[i] = <<modelIdx, scenIdx>>


\* The scenario runs of model m that have completed: all of them once the
\* run of a started model is through, those before the scenario at hand
\* while it is under way, and none of a model whose start failed.
RecordsOf(m) == {i \in 1..Len(results) : results[i][1] = m}

\* C27: self.results only grows, by one record at the end of each completed
\* scenario run: every step leaves it alone or appends the record of the
\* scenario that returns, the records are pairwise distinct, and while a
\* model's scenarios run the model has one record per scenario completed.
C27_AppendOnly ==
    /\ [][results' # results =>
             /\ pc = "scenario"
             /\ results' = Append(results, <<modelIdx, scenIdx>>)]_vars
    /\ [](/\ \A i, j \in 1..Len(results) : results[i] = results[j] => i = j
          /\ pc = "scenario" => Cardinality(RecordsOf(modelIdx)) = scenIdx - 1
          /\ \A m \in 1..nModels :
                Cardinality(RecordsOf(m)) \in 0..NumScenarios)

\* Both models have run their three scenarios: six records, the first
\* model's before the second's.
C27_Witness ==
    /\ Len(results) = 2 * NumScenarios
    /\ results[1][1] = 1
    /\ results[2 * NumScenarios][1] = 2
    /\ pc = "done"


RECURSIVE BeforeDone(_, _)
BeforeDone(ls, i) ==
    IF i > Len(ls) \/ (IsData(ls[i]) /\ ls[i].payload = DoneText) THEN <<>>
    ELSE <<ls[i]>> \o BeforeDone(ls, i + 1)

\* The payloads of the data lines of ls, from line i on, joined in order;
\* with blanks FALSE the payloads that are empty or all whitespace are left
\* out.
RECURSIVE JoinPayloads(_, _, _)
JoinPayloads(ls, i, blanks) ==
    IF i > Len(ls) THEN <<>>
    ELSE (IF IsData(ls[i]) /\ (blanks \/ Strip(ls[i].payload) # <<>>)
          THEN ls[i].payload ELSE <<>>)
         \o JoinPayloads(ls, i + 1, blanks)

\* Once the loop is left no line after the first 'data: [DONE]' has been
\* taken, and full_response joins, in order, the payloads of the data lines
\* before it that are not blank.
StreamJoinsNonBlank ==
    stpc = "done" =>
        /\ lineIdx <= Len(BeforeDone(lines, 1)) + 1
        /\ full_response
             = JoinPayloads(BeforeDone(lines, 1), 1, FALSE)

\* C29: once the loop is left, full_response is the in-order concatenation
\* of the payloads of the 'data: ' lines before the first 'data: [DONE]':
\* each is consumed once, lines without the prefix are ignored, and no line
\* after the terminator is taken.
C29_StreamConcatenation ==
    stpc = "done" =>
        /\ lineIdx <= Len(BeforeDone(lines, 1)) + 1
        /\ full_response
             = JoinPayloads(BeforeDone(lines, 1), 1, TRUE)


\* The call has ended after the request was answered.
VisionEnded == vpc \in {"returned", "raised"} /\ response # "unset"

\* When the call returns: a 402 whose body is a non-empty JSON object, or no
\* JSON at all, is a license outcome and a success; another HTTP error and a
\* transport exception give no response and a failure.
LicenseOutcomeOfObjects ==
    (VisionEnded /\ vpc = "returned") =>
        /\ (/\ vreply.kind = "http" /\ vreply.status = 402
            /\ vreply.body \in {"blocks", "object", "unparseable"}) =>
              /\ Truthy(response)
              /\ is_license_error
              /\ test_results.license_validation
              /\ success
        /\ (vreply.kind = "exception" \/ vreply.status = 500) =>
              /\ response = "None"
              /\ ~success

\* C30: an HTTP 402 from the vision endpoint is a license-required outcome:
\* the response is non-empty, the license flag is set, license_validation is
\* recorded and the test succeeds; any other HTTP error status, and a
\* transport exception, gives no response and a failed test.
C30_LicenseOutcome ==
    VisionEnded =>
        /\ (vreply.kind = "http" /\ vreply.status = 402) =>
              /\ vpc = "returned"
              /\ Truthy(response)
              /\ is_license_error
              /\ test_results.license_validation
              /\ success
        /\ (vreply.kind = "exception" \/ vreply.status = 500) =>
              /\ response = "None"
              /\ ~success


\* What of a record the report file keeps: the names, the token count, and
\* the four printed figures to the precision they are printed with.
ArtifactKeepsPrinted ==
    apc = "read" =>
        /\ read_back.model_name = arecord.model_name
        /\ read_back.test_name = arecord.test_name
        /\ read_back.tokens_generated = arecord.tokens_generated
        /\ read_back.peak_gpu_memory_mb = arecord.peak_gpu_memory_mb
        /\ \A f \in {"tokens_per_second", "success_rate",
                     "average_response_time_ms"} :
              /\ read_back[f] - arecord[f] < 10
              /\ arecord[f] - read_back[f] < 10

\* C31: a record written to the report and read back has the model name,
\* the scenario name and every numeric field of the record in the results
\* collection, exactly.
C31_ArtifactRoundTrip == apc = "read" => read_back = arecord


\* The images whose request fails, in order.
FailedImages == {i \in 1..Len(outcomeOf) : outcomeOf[i] \in RequestFailures}

\* The runner's contract, at its exit: with --fail-fast and a failed request
\* the exit status is 2 and the first failed request is the last one sent;
\* otherwise every image was requested, in order, and has its row, a failed
\* request's error in parse_warnings.
FailFastContract ==
    IF fail_fast /\ FailedImages # {}
    THEN /\ exit_status = 2
         /\ requested
              = [i \in 1..(CHOOSE k \in FailedImages :
                              \A j \in FailedImages : k <= j) |-> i]
    ELSE /\ exit_status = 0
         /\ requested = [i \in 1..Len(outcomeOf) |-> i]
         /\ Len(trows) = Len(outcomeOf)
         /\ \A i \in 1..Len(trows) :
               /\ trows[i].image = i
               /\ outcomeOf[i] \in RequestFailures =>
                     trows[i].parse_warnings = ParseWarnings(outcomeOf[i])

\* The contract holds when every image can be read and every 200 answer is
\* a JSON object.
TimingContractOfRequests ==
    (/\ tmpc = "exited"
     /\ \A i \in 1..Len(outcomeOf) :
           outcomeOf[i] \notin {"unreadable", "not_object"})
        => FailFastContract

\* C32: with --fail-fast the runner stops at the first image whose request
\* ends in an HTTP error or an exception, with exit status 2, and requests
\* no later image; without it every image is requested in the given order
\* and contributes one row, the error recorded in its parse_warnings.
C32_FailFast == tmpc = "exited" => FailFastContract


\* C33: in every scenario, the concurrent one included, the
\* average_response_time_ms of the record is the mean of the response times
\* of the successful requests, in milliseconds, and 0 when none succeeded.
C33_AverageIsMean ==
    RecordMade =>
        IF OkCount(outcomes) = 0
        THEN metrics.average_response_time_ms.n = 0
        ELSE /\ metrics.average_response_time_ms.d > 0
             /\ metrics.average_response_time_ms.n * OkCount(outcomes)
                  = BagTimeSum(outcomes) * 100
                      * metrics.average_response_time_ms.d

\* The same for the two scenarios that await their requests one by one.
AverageIsMeanSequential ==
    (RecordMade /\ metrics.test # NumScenarios /\ OkCount(outcomes) > 0) =>
        /\ metrics.average_response_time_ms.d > 0
        /\ metrics.average_response_time_ms.n * OkCount(outcomes)
             = BagTimeSum(outcomes) * 100
                 * metrics.average_response_time_ms.d


\* The sampling loops that have not left their while loop.
ActiveLoops == {t \in Tids : tpc[t] \notin {"none", "done"}}

\* C34: across consecutive windows at most one sampling loop is active at
\* any time, and the loop started for a window does not run on in a later
\* window, also after a join that expired.
C34_WindowsIsolated ==
    /\ Cardinality(ActiveLoops) <= 1
    /\ \A t \in ActiveLoops : t = window


\* C35: when a scenario has ended, by its return or by an exception raised
\* after start_monitoring, its monitoring window has been closed by
\* stop_monitoring.
C35_MonitoringStoppedAtExit ==
    spc \in {"begin", "finished", "raised"} => ~monitored

\* A scenario that returns has closed its window.
MonitoringStoppedAtReturn == spc \in {"begin", "finished"} => ~monitored


\* C36: generation requests for a model are issued only while that model's
\* server is owned and has passed its health check: whenever a scenario is
\* running, the start for the model at hand has returned True on a 200 health
\* answer, the handle held is the process that start spawned, and no stop has
\* signalled it yet; no scenario runs for a model whose start returned False.
C36_RequestsOnlyWhileServed ==
    pc = "scenario" =>
        /\ startRet = "True"
        /\ health = "200"
        /\ spawnedPid # 0
        /\ server_process = spawnedPid
        /\ sigs[spawnedPid] = <<>>
        /\ stopRet = "none"

\* The last scenario of the second model runs, after the first model's server
\* was stopped or its start failed.
C36_Witness ==
    /\ pc = "scenario"
    /\ modelIdx = 2
    /\ scenIdx = NumScenarios


\* The records of model m in the collection.
RecordsOfModel(m) == {i \in 1..Len(results) : results[i][1] = m}

\* C37: the report is generated at most once per run and only after the loop
\* over all selected models has completed (every model either failed to start
\* or has the records of all its scenarios); a run that an interrupt or an
\* exception takes out of the loop never calls generate_report; and a call
\* with an empty collection writes neither the chart nor the report.
C37_ReportOnceAfterLoop ==
    /\ [](/\ report_calls <= 1
          /\ written # {} => report_calls = 1 /\ results # <<>>
          /\ report_calls = 1 =>
                 /\ modelIdx = nModels
                 /\ \A m \in 1..nModels :
                        Cardinality(RecordsOfModel(m)) \in {0, NumScenarios})
    /\ [][/\ report_calls' # report_calls =>
                 /\ report_calls' = report_calls + 1
                 /\ pc = "main_report"
                 /\ exitPath = "none"
          /\ (report_calls = 0 /\ exitPath' \in {"interrupt", "exception"}) =>
                 report_calls' = 0
          /\ written' # written => pc \in {"report_chart", "report_file"}]_vars

\* A run of two models has ended with the chart and the report written.
C37_Witness ==
    /\ pc = "done"
    /\ exitPath = "completed"
    /\ nModels = 2
    /\ written = ReportFiles


\* C38: the spawned vision server is stopped on every exit path of
\* run_cross_validation_test: when the function has returned or raised, the
\* process it spawned is no longer running, also when the process does not
\* exit within the ten-second wait after terminate.
C38_VisionServerStopped ==
    vpc \in {"returned", "raised"} => vserver # "running"

\* When the function returns a value, the server has exited.
VisionServerStoppedAtReturn == vpc = "returned" => vserver = "exited"


\* wait_for_server has ended: it returned or an exception left it.
WaitEnded == wpc \in {"returned", "raised"}

\* C39: wait_for_server always terminates with a verdict: it returns True at
\* the first probe answered with HTTP 200, treats every failed probe as
\* not-ready without raising, and returns False once the timeout has elapsed
\* with no successful probe; no exception leaves it.
C39_WaitReturnsVerdict ==
    /\ wpc # "raised"
    /\ wpc = "returned" => wret \in {"True", "False"}
    /\ wret = "True" => wanswer = "200"
    /\ wret = "False" => wclock >= WaitTimeout /\ wanswer # "200"

\* The probes the claim lists (connection refused, HTTP error, timeout), and
\* a status other than 200, are taken as not-ready: the loop goes on to its
\* sleep, and the verdicts are as stated.
WaitListedFailuresPass ==
    /\ wpc = "sleep" => wanswer \in CaughtAnswers \cup {"other_2xx"}
    /\ wpc = "raised" => wanswer = "bad_status_line"
    /\ wret = "True" => wanswer = "200"
    /\ wret = "False" => wclock >= WaitTimeout /\ wanswer # "200"

\* The elapsed time never passes the timeout by more than one probe and one
\* sleep.
WaitClockBounded == wclock <= WaitTimeout + ProbeTimeout + ProbeSleep

\* wait_for_server ends on every course of the probes.
WaitTerminates == <>WaitEnded


\* The tests of the suite that have returned.
TestsReturned ==
    IF bpc \in {"post", "stream", "interrupted"} THEN bidx - 1
    ELSE IF bpc = "idle" THEN 0 ELSE MaxTests

\* C40: execute_streaming_test never raises for a failure and returns one
\* result per call, whose status is success, error (with error = HTTP <code>)
\* or timeout/error; a result carries a metrics entry if and only if its
\* status is success; and generate_summary never fails on the results, failed
\* tests included.  (Only a KeyboardInterrupt leaves the call as an
\* exception.)
C40_OneResultPerTest ==
    /\ Len(bresults) = TestsReturned
    /\ \A i \in 1..Len(bresults) :
          LET r == bresults[i] IN
          /\ r.test_name = i
          /\ r.status \in {"success", "error", "timeout/error"}
          /\ ("metrics" \in DOMAIN r) <=> (r.status = "success")
          /\ r.status = "error" =>
                 \E code \in ErrorCodes : r.error = "HTTP " \o ToString(code)
          /\ r.status = "timeout/error" =>
                 r.error \in PostExceptions \cup StreamExceptions
    /\ bpc # "raised"
    /\ bsummary # "KeyError"
    /\ bpc = "done" => bsummary \in {"no_success", "printed"}

\* The suite has ended with a summary over a success, an HTTP error and an
\* exception.
C40_Witness ==
    /\ bpc = "done"
    /\ bsummary = "printed"
    /\ \A st \in {"success", "error", "timeout/error"} :
          \E i \in 1..Len(bresults) : bresults[i].status = st


=============================================================================
